---- MODULE Spec2Model ----
(***************************************************************************)
(* A model of the PSD/PSB decoder of the Aseprite PSD library.             *)
(*                                                                         *)
(* The byte source (StdioFileInterface) is a finite sequence of bytes with *)
(* a position and the m_ok flag.  decode_psd runs the five section parsers *)
(* of Decoder in order inside one try block; every parser is one action    *)
(* that reads the bytes exactly as the C++ code does and appends the       *)
(* delegate events it delivers to `events`.                                *)
(*                                                                         *)
(* A parser works on a context record                                      *)
(*    [pos, ok, v, l, ev, thrown, hang, beyond, mem]                       *)
(* pos/ok are the byte source's position and m_ok, v the value of the last *)
(* read (or the value a function returns), l the local variables of the    *)
(* running function by name, ev the delegate events delivered so far, mem  *)
(* what the memory held that no initialiser has written; thrown says that  *)
(* a std::runtime_error is propagating, hang that the parser entered a     *)
(* loop that never ends, beyond that the code went into the slices         *)
(* readers (readResourceSlicesV6, getSlices), which this model does not    *)
(* follow: such a run is left open (pc = "beyond") and nothing is said     *)
(* about how it ends.                                                      *)
(***************************************************************************)
EXTENDS Integers, Sequences, FiniteSets, TLC

VARIABLES file, garbage, pos, m_ok, m_header, events, pc, result

vars == <<file, garbage, pos, m_ok, m_header, events, pc, result>>

(***************************************************************************)
(* Program constants                                                       *)
(***************************************************************************)
PSD_FILE_MAGIC_NUMBER == 943870035

PSD_IMAGE_BLOCK_MAGIC_NUMBER == 943868237

PSD_LAYER_INFO_MAGIC_NUMBER == 943868237

PSD_LAYER_INFO_MAGIC_NUMBER2 == 943863348

PSD_BLEND_MODE_MAGIC_NUMBER == 943868237

VersionPsd == 1

VersionPsb == 2

ColorModeBitmap == 0

ColorModeGrayscale == 1

ColorModeIndexed == 2

ColorModeRGB == 3

ColorModeCMYK == 4

ColorModeMultichannel == 7

ColorModeDuotone == 8

ColorModeLab == 9

ChannelRed == 0

ChannelGreen == 1

ChannelBlue == 2

ChannelAlpha == 3

ChannelTransparencyMask == -1

RawImageData == 0

RLE == 1

ZIPWithoutPrediction == 2

ZIPWithPrediction == 3

\* the palette length readColorModeData demands of an indexed image
PaletteLength == 768

\* the number of palette entries of an indexed image
PaletteColors == 256

\* the width/height ceiling of a PSD file
PsdMaxSize == 30000

\* the width/height ceiling of a PSB file
PsbMaxSize == 300000

\* the greatest opacity of a global mask
MaxMaskOpacity == 100

(***************************************************************************)
(* Bytes and big-endian encodings (what a writer puts on disk)             *)
(***************************************************************************)
Byte == 0..255

U8(v) == <<v % 256>>

U16(v) == <<(v \div 256) % 256, v % 256>>

U32(v) == <<(v \div 16777216) % 256, (v \div 65536) % 256, (v \div 256) % 256, v % 256>>

U64(v) == <<0, 0, 0, 0>> \o U32(v)

(***************************************************************************)
(* StdioFileInterface                                                      *)
(***************************************************************************)
\* a context in which the code is still running: no exception propagates,
\* no loop spins for ever and the slices readers were not entered.
\* Nothing is read, sought or delivered in a context that is not live.
Live(c) == ~c.thrown /\ ~c.hang /\ ~c.beyond

\* ftell
Tell(c) == c.pos

\* fseek(absPos, SEEK_SET): any position is accepted, also past the end
Seek(c, absPos) == IF Live(c) THEN [c EXCEPT !.pos = absPos] ELSE c

\* fgetc: the next byte, or 0 with m_ok cleared at end-of-file
FileRead8(c) ==
  IF ~Live(c) THEN c
  ELSE IF c.pos < Len(file)
    THEN [c EXCEPT !.pos = c.pos + 1, !.v = file[c.pos + 1]]
    ELSE [c EXCEPT !.ok = FALSE, !.v = 0]

\* the bytes fread can deliver from position p
Avail(p) == IF p < Len(file) THEN Len(file) - p ELSE 0

\* fread(buf, 1, size): reads what is there; a short read leaves m_ok alone.
\* v is the number of bytes read.
FileRead(c, size) ==
  LET n == IF Avail(c.pos) < size THEN Avail(c.pos) ELSE size
  IN IF Live(c) THEN [c EXCEPT !.pos = c.pos + n, !.v = n] ELSE c

\* byte k (0-based) of a buffer filled by FileRead from position p with n
\* bytes read: the bytes beyond n keep what the buffer held before
BufByte(p, n, k, old) == IF k < n THEN file[p + k + 1] ELSE old

(***************************************************************************)
(* Decoder: typed readers                                                  *)
(***************************************************************************)
Read8(c) == FileRead8(c)

Min(a, b) == IF a < b THEN a ELSE b

\* n calls of read8 in a row: v is the sequence of the n values
Read8Times(c, n) ==
  IF ~Live(c) THEN c ELSE
  [c EXCEPT !.pos = c.pos + Min(Avail(c.pos), n),
            !.ok = c.ok /\ (n <= Avail(c.pos)),
            !.v = [i \in 1..n |-> IF i <= Avail(c.pos) THEN file[c.pos + i] ELSE 0]]

\* c has just called read8 twice: the value when ok(), and 0 when not
Value16(c) ==
  [c EXCEPT !.v = IF c.ok THEN c.v[1] * 256 + c.v[2] ELSE 0]

Read16(c) == IF Live(c) THEN Value16(Read8Times(c, 2)) ELSE c

\* c has just called read8 four times: the value when ok(), and 0 when not
Value32(c) ==
  [c EXCEPT !.v = IF c.ok
                    THEN c.v[1] * 16777216 + c.v[2] * 65536
                         + c.v[3] * 256 + c.v[4]
                    ELSE 0]

Read32(c) == IF Live(c) THEN Value32(Read8Times(c, 4)) ELSE c

\* read64: m_file->read(bytes, 8) into an uninitialised buffer, then the
\* big-endian value of the buffer when ok().  After a short read the bytes
\* that were not read keep the buffer's old content, c.mem.
Read64(c) ==
  LET r == FileRead(c, 8)
      B(k) == BufByte(c.pos, r.v, k, c.mem[k + 1])
      hi == B(0) * 16777216 + B(1) * 65536 + B(2) * 256 + B(3)
      lo == B(4) * 16777216 + B(5) * 65536 + B(6) * 256 + B(7)
  IN IF Live(c)
       THEN [r EXCEPT !.v = IF r.ok THEN hi * 65536 * 65536 + lo ELSE 0]
       ELSE c

\* a length that is read as 32 bits whatever the version is
Read32or64Length_Narrow(c) == Read32(c)

Read16or32Length(c) ==
  IF m_header.version = VersionPsb THEN Read32(c) ELSE Read16(c)

Read32or64Length(c) ==
  IF m_header.version = VersionPsb THEN Read64(c) ELSE Read32(c)

\* an exception is thrown: no value is returned to any caller
Throw(c) == [c EXCEPT !.thrown = TRUE, !.v = 0]

\* the value of an int that is read before anything was stored in it
Junk(c) == c.mem[8]

Emit(c, e) == IF Live(c) THEN [c EXCEPT !.ev = Append(c.ev, e)] ELSE c

\* a loop that never ends is entered
Hang(c) == [c EXCEPT !.hang = TRUE]

\* the code goes on into a part that the model does not follow
Beyond(c) == IF Live(c) THEN [c EXCEPT !.beyond = TRUE, !.v = 0] ELSE c

\* readResourceSlicesV6() is called
ReadResourceSlicesV6(c) == Beyond(c)

\* the last value read becomes the local variable `name`
Let(c, name) == [c EXCEPT !.l = (name :> c.v) @@ @]

\* the local variable `name` becomes val
Set(c, name, val) == [c EXCEPT !.l = (name :> val) @@ @]

\* const size_t name = m_file->tell()
LetTell(c, name) == Set(c, name, c.pos)

\* a function is entered: its locals are new, those of the caller are kept
Enter(c) == [c EXCEPT !.l = [caller |-> @]]

\* a function returns val: the caller's locals are back
Return(c, val) == [c EXCEPT !.v = val, !.l = @.caller]

\* a function returns the value it has made, or an exception leaves it
ReturnValue(c) == Return(c, c.v)

\* a function that takes LayerRecord& layerRecord is entered
EnterRef(c) == [c EXCEPT !.l = [caller |-> @, layerRecord |-> @.layerRecord]]

\* it returns val, and the caller sees what it did to the layer record
ReturnRef(c, val) ==
  [c EXCEPT !.v = val,
            !.l = ("layerRecord" :> c.l.layerRecord) @@ c.l.caller]

\* m_file->seek(m_file->tell() + n) with n the value just read
SeekRel(c) == Seek(c, c.pos + c.v)

\* the context a section parser starts from
Ctx == [pos |-> pos, ok |-> m_ok, v |-> 0, l |-> <<>>, ev |-> events,
        thrown |-> FALSE, hang |-> FALSE, beyond |-> FALSE, mem |-> garbage]

\* m_file->read into a vector that resize(n) has zero-filled
ReadVector(c, n) ==
  IF ~Live(c) THEN c ELSE
  [c EXCEPT !.pos = c.pos + Min(Avail(c.pos), n),
            !.v = [i \in 1..n |-> IF i <= Avail(c.pos) THEN file[c.pos + i] ELSE 0]]

(***************************************************************************)
(* Descriptors: psd.h OSType values, Decoder::parseDescriptor and the      *)
(* parsers it calls                                                        *)
(***************************************************************************)
\* PSD_DEFINE_DWORD(a, b, c, d)
DWORD(a, b, c, d) == ((a * 256 + b) * 256 + c) * 256 + d

\* enum class OSTypeKey
OSTypeKey ==
  [Reference |-> DWORD(111, 98, 106, 32),
   Descriptor |-> DWORD(79, 98, 106, 99),
   List |-> DWORD(86, 108, 76, 115),
   Double |-> DWORD(100, 111, 117, 98),
   UnitFloat |-> DWORD(85, 110, 116, 70),
   String |-> DWORD(84, 69, 88, 84),
   Enumerated |-> DWORD(101, 110, 117, 109),
   Long |-> DWORD(108, 111, 110, 103),
   LargeInteger |-> DWORD(99, 111, 109, 112),
   Boolean |-> DWORD(98, 111, 111, 108),
   GlobalObject |-> DWORD(71, 108, 98, 79),
   ClassType |-> DWORD(116, 121, 112, 101),
   GlobalClass |-> DWORD(71, 108, 98, 67),
   Alias |-> DWORD(97, 108, 105, 115),
   RawData |-> DWORD(116, 100, 116, 97),
   RefProperty |-> DWORD(112, 114, 111, 112),
   RefClass |-> DWORD(67, 108, 115, 115),
   RefEnum |-> DWORD(69, 110, 109, 114),
   RefOffset |-> DWORD(114, 101, 108, 101),
   RefIdentifier |-> DWORD(73, 100, 110, 116),
   RefIndex |-> DWORD(105, 100, 110, 120),
   RefName |-> DWORD(110, 97, 109, 101)]

\* enum class OSTypeUnitFloat::Unit
Unit ==
  [Angle |-> DWORD(35, 65, 110, 103),
   Density |-> DWORD(35, 82, 115, 108),
   Distance |-> DWORD(35, 82, 108, 116),
   None |-> DWORD(35, 78, 110, 101),
   Percent |-> DWORD(35, 80, 114, 99),
   Pixel |-> DWORD(35, 80, 120, 108)]

\* a check that lets every code through
is_valid_class_type_Any(class_id) == TRUE

is_valid_class_type(class_id) ==
  class_id \in {OSTypeKey.Alias, OSTypeKey.Boolean, OSTypeKey.ClassType,
                OSTypeKey.Descriptor, OSTypeKey.Double, OSTypeKey.Enumerated,
                OSTypeKey.GlobalClass, OSTypeKey.GlobalObject,
                OSTypeKey.LargeInteger, OSTypeKey.List, OSTypeKey.Long,
                OSTypeKey.RawData, OSTypeKey.Reference, OSTypeKey.UnitFloat,
                OSTypeKey.String}

is_valid_reference_type(key) ==
  key \in {OSTypeKey.RefClass, OSTypeKey.RefEnum, OSTypeKey.RefIdentifier,
           OSTypeKey.RefIndex, OSTypeKey.RefName, OSTypeKey.RefOffset,
           OSTypeKey.RefProperty}

is_valid_unit_float(unit) ==
  unit \in {Unit.Angle, Unit.Density, Unit.Distance, Unit.None, Unit.Percent,
            Unit.Pixel}

\* an empty std::unique_ptr<OSType>
Nullptr == [type |-> 0]

\* the function returns val
Returns(c, val) == IF Live(c) THEN [c EXCEPT !.v = val] ELSE c

\* key_to_string(key): the four bytes of the key, the high one first
key_to_string(key) == U32(key)

\* c has just read the key
KeyName(c) == Returns(c, [name |-> key_to_string(c.v)])

\* c has just read the bytes of the name
VectorName(c) == Returns(c, [name |-> c.v])

\* c has just read classIDLength
DescrVariableName(c) ==
  IF c.v = 0 THEN KeyName(Read32(c)) ELSE VectorName(ReadVector(c, c.v))

ParseDescrVariable(c) ==
  IF Live(c) THEN DescrVariableName(Read32(c)) ELSE c

\* the loop of getUnicodeString: n times read16
RECURSIVE ReadWChars(_, _, _)
ReadWChars(c, n, acc) ==
  IF n <= 0 \/ ~Live(c)
    THEN [c EXCEPT !.v = acc]
    ELSE LET ch == Read16(c)
         IN ReadWChars(ch, n - 1, Append(acc, ch.v))

\* c has just read the length
UnicodeStringChars(c) == ReadWChars(c, c.v, <<>>)

GetUnicodeString(c) == UnicodeStringChars(Read32(c))

\* c has read className and meta
ClassTypeValue(c) ==
  Returns(c, [type |-> OSTypeKey.ClassType, className |-> c.l.className,
              meta |-> c.l.meta])

ParseClassType(c) ==
  IF ~Live(c) THEN c
  ELSE ReturnValue(
         ClassTypeValue(
           Let(ParseDescrVariable(Let(GetUnicodeString(Enter(c)),
                                      "className")),
               "meta")))

\* c has read typeID and enumValue
EnumeratedValue(c) ==
  Returns(c, [type |-> OSTypeKey.Enumerated, typeID |-> c.l.typeID,
              enumValue |-> c.l.enumValue])

ParseEnumeratedType(c) ==
  IF ~Live(c) THEN c
  ELSE ReturnValue(
         EnumeratedValue(
           Let(ParseDescrVariable(Let(ParseDescrVariable(Enter(c)),
                                      "typeID")),
               "enumValue")))

ParseAliasType(c) ==
  IF ~Live(c) THEN c
  ELSE Returns(SeekRel(Read32(c)), [type |-> OSTypeKey.Alias])

\* c has read propName, classID and keyID
PropertyValue(c) ==
  Returns(c, [type |-> OSTypeKey.RefProperty, propName |-> c.l.propName,
              classID |-> c.l.classID, keyID |-> c.l.keyID])

\* case OSTypeKey::RefProperty
ReferenceProperty(c) ==
  PropertyValue(
    Let(ParseDescrVariable(
          Let(ParseDescrVariable(Let(GetUnicodeString(c), "propName")),
              "classID")),
        "keyID"))

\* c has read refClassID, classID, typeID and enumValue
EnumeratedRefValue(c) ==
  Returns(c, [type |-> OSTypeKey.RefEnum, refClassID |-> c.l.refClassID,
              classID |-> c.l.classID, typeID |-> c.l.typeID,
              enumValue |-> c.l.enumValue])

\* case OSTypeKey::RefEnum
ReferenceEnum(c) ==
  EnumeratedRefValue(
    Let(ParseDescrVariable(
          Let(ParseDescrVariable(
                Let(ParseDescrVariable(Let(GetUnicodeString(c),
                                           "refClassID")),
                    "classID")),
              "typeID")),
        "enumValue"))

\* c has read offsetName, classID and value
OffsetValue(c) ==
  Returns(c, [type |-> OSTypeKey.RefOffset, offsetName |-> c.l.offsetName,
              classID |-> c.l.classID, value |-> c.l.value])

\* case OSTypeKey::RefOffset
ReferenceOffset(c) ==
  OffsetValue(
    Let(Read32(Let(ParseDescrVariable(Let(GetUnicodeString(c),
                                          "offsetName")),
                   "classID")),
        "value"))

\* c has just read osTypeInt: the check and the switch of parseReferenceType
ReferenceItem(c) ==
  IF ~Live(c) THEN c
  ELSE IF ~is_valid_reference_type(c.v) THEN Throw(c)
  ELSE IF c.v = OSTypeKey.RefProperty THEN ReferenceProperty(c)
  ELSE IF c.v = OSTypeKey.RefClass THEN ParseClassType(c)
  ELSE IF c.v = OSTypeKey.RefEnum THEN ReferenceEnum(c)
  ELSE IF c.v = OSTypeKey.RefOffset THEN ReferenceOffset(c)
  ELSE Throw(c)

\* the for loop of parseReferenceType, with `left` items to go
RECURSIVE ReferenceItems(_, _, _)
\* ref->refs.emplace_back(...): c has just made the item
ReferenceItemsNext(c, left, refs) ==
  ReferenceItems(c, left - 1, Append(refs, c.v))

ReferenceItems(c, left, refs) ==
  IF ~Live(c) THEN c
  ELSE IF left <= 0
    THEN Returns(c, [type |-> OSTypeKey.Reference, refs |-> refs])
  ELSE ReferenceItemsNext(ReferenceItem(Read32(c)), left, refs)

\* c has just read nItems
ReferenceOfItems(c) == ReferenceItems(c, c.v, <<>>)

ParseReferenceType(c) ==
  IF Live(c) THEN ReturnValue(ReferenceOfItems(Read32(Enter(c)))) ELSE c

\* std::map::emplace: a pair whose key the map already has is not put in
Emplace(items, key, value) ==
  IF key \in DOMAIN items THEN items ELSE (key :> value) @@ items

\* DescriptorMap::find
Find(descriptor, key) ==
  IF key \in DOMAIN descriptor THEN descriptor[key] ELSE Nullptr

\* DescriptorMap::getValue<T> with T::kType = kType
GetValue(descriptor, key, kType) ==
  IF Find(descriptor, key).type # kType THEN Nullptr ELSE Find(descriptor, key)

\* OSType::numberValue: the value of a double, a long and a large integer,
\* and 0 of any other type
NumberValue(value) ==
  IF value.type \in {OSTypeKey.Double, OSTypeKey.Long, OSTypeKey.LargeInteger}
    THEN value.value
    ELSE 0

RECURSIVE ParseDescriptor(_), ParseOsTypeVariable(_), ListItems(_, _, _),
          DescriptorItems(_, _, _)

\* list->values.emplace_back(...): c has just parsed the value
ListItemsNext(c, left, values) == ListItems(c, left - 1, Append(values, c.v))

\* the for loop of parseListType, with `left` values to go
ListItems(c, left, values) ==
  IF ~Live(c) THEN c
  ELSE IF left <= 0
    THEN Returns(c, [type |-> OSTypeKey.List, values |-> values])
  ELSE ListItemsNext(ParseOsTypeVariable(c), left, values)

\* c has just read nLength
ListOfItems(c) == ListItems(c, c.v, <<>>)

ParseListType(c) == IF Live(c) THEN ListOfItems(Read32(c)) ELSE c

\* c has read the unit and the value: the unit is checked
UnitFloatChecked(c) ==
  IF ~Live(c) THEN c
  ELSE IF ~is_valid_unit_float(c.l.unit) THEN Throw(c)
  ELSE Returns(c, [type |-> OSTypeKey.UnitFloat, unit |-> c.l.unit,
                   value |-> c.v])

\* case OSTypeKey::UnitFloat: the unit and the value are read, then the unit
\* is checked
UnitFloatValue(c) == UnitFloatChecked(Read64(Let(Read32(c), "unit")))

\* new OSTypeDouble(read64()), new OSTypeInt(read32()), new
\* OSTypeLargeInt(read64()): c has just read the number
NumberOfType(c, kType) == Returns(c, [type |-> kType, value |-> c.v])

\* new OSTypeString(getUnicodeString()): c has just read the string
StringValue(c) == Returns(c, [type |-> OSTypeKey.String, value |-> c.v])

\* new OSTypeBoolean((bool)read8()): c has just read the byte
BooleanValue(c) == Returns(c, [type |-> OSTypeKey.Boolean, value |-> c.v # 0])

\* c has just read osTypeInt: the check and the switch of
\* parseOsTypeVariable
OsTypeValue(c) ==
  IF ~Live(c) THEN c
  ELSE IF ~is_valid_class_type(c.v) THEN Throw(c)
  ELSE IF c.v \in {OSTypeKey.GlobalObject, OSTypeKey.Descriptor}
    THEN ParseDescriptor(c)
  ELSE IF c.v = OSTypeKey.Reference THEN ParseReferenceType(c)
  ELSE IF c.v = OSTypeKey.List THEN ParseListType(c)
  ELSE IF c.v = OSTypeKey.Double THEN NumberOfType(Read64(c), OSTypeKey.Double)
  ELSE IF c.v = OSTypeKey.UnitFloat THEN UnitFloatValue(c)
  ELSE IF c.v = OSTypeKey.String THEN StringValue(GetUnicodeString(c))
  ELSE IF c.v = OSTypeKey.Enumerated THEN ParseEnumeratedType(c)
  ELSE IF c.v = OSTypeKey.Long THEN NumberOfType(Read32(c), OSTypeKey.Long)
  ELSE IF c.v = OSTypeKey.LargeInteger
    THEN NumberOfType(Read64(c), OSTypeKey.LargeInteger)
  ELSE IF c.v = OSTypeKey.Boolean THEN BooleanValue(Read8(c))
  ELSE IF c.v \in {OSTypeKey.GlobalClass, OSTypeKey.ClassType}
    THEN ParseClassType(c)
  ELSE IF c.v = OSTypeKey.Alias THEN ParseAliasType(c)
  ELSE IF c.v = OSTypeKey.RawData THEN Throw(c)
  ELSE Returns(c, Nullptr)

ParseOsTypeVariable(c) ==
  IF Live(c) THEN ReturnValue(OsTypeValue(Read32(Enter(c)))) ELSE c

\* desc->descriptors.emplace(key.name, ...): c has just parsed the value
DescriptorItemsNext(c, left, desc) ==
  DescriptorItems(c, left - 1,
                  IF Live(c)
                    THEN [desc EXCEPT !.descriptor =
                                        Emplace(@, c.l.key.name, c.v)]
                    ELSE desc)

\* the for loop of parseDescriptor, with `left` pairs to go
DescriptorItems(c, left, desc) ==
  IF ~Live(c) THEN c
  ELSE IF left <= 0 THEN Returns(c, desc)
  ELSE DescriptorItemsNext(
         ParseOsTypeVariable(Let(ParseDescrVariable(c), "key")), left, desc)

\* c has just read nDescriptors
DescriptorOfItems(c) ==
  DescriptorItems(c, c.v,
                  [type |-> OSTypeKey.Descriptor,
                   descriptorName |-> c.l.descriptorName,
                   classId |-> c.l.classId, descriptor |-> <<>>])

\* descriptorName, classId and nDescriptors, then the loop
ParseDescriptor(c) ==
  IF ~Live(c) THEN c
  ELSE ReturnValue(
         DescriptorOfItems(
           Read32(Let(ParseDescrVariable(Let(GetUnicodeString(Enter(c)),
                                             "descriptorName")),
                      "classId"))))

(***************************************************************************)
(* Decoder::readFileHeader                                                 *)
(***************************************************************************)
ValidDepth(depth) == depth \in {1, 8, 16, 32}

ValidColorMode(colorMode) ==
  colorMode \in {ColorModeBitmap, ColorModeGrayscale, ColorModeIndexed,
                 ColorModeRGB, ColorModeCMYK, ColorModeMultichannel,
                 ColorModeDuotone, ColorModeLab}

\* a size check that rejects the ceiling itself
ValidVersionAndSize_CeilingRejected(version, width, height) ==
  CASE version = VersionPsd -> ~(width >= PsdMaxSize \/ height >= PsdMaxSize)
    [] version = VersionPsb -> ~(width >= PsbMaxSize \/ height >= PsbMaxSize)
    [] OTHER -> FALSE

\* the switch on the version: the size ceiling of PSD and of PSB, and the
\* default branch that rejects any other version
ValidVersionAndSize(version, width, height) ==
  CASE version = VersionPsd -> ~(width > PsdMaxSize \/ height > PsdMaxSize)
    [] version = VersionPsb -> ~(width > PsbMaxSize \/ height > PsbMaxSize)
    [] OTHER -> FALSE

\* the four checks of readFileHeader, each of which throws
HeaderAccepted(magic, version, width, height, depth, colorMode) ==
  /\ magic = PSD_FILE_MAGIC_NUMBER
  /\ ValidDepth(depth)
  /\ ValidColorMode(colorMode)
  /\ ValidVersionAndSize(version, width, height)

\* the checks, then the header is stored (local m_header) and delivered
StoreFileHeader(c) ==
  IF HeaderAccepted(c.l.magic, c.l.version, c.l.width, c.l.height,
                    c.l.depth, c.l.colorMode)
    THEN Emit(Set(c, "m_header",
                  [version |-> c.l.version, nchannels |-> c.l.nchannels,
                   width |-> c.l.width, height |-> c.l.height,
                   depth |-> c.l.depth, colorMode |-> c.l.colorMode]),
              [type |-> "onFileHeader",
               header |-> [version |-> c.l.version, nchannels |-> c.l.nchannels,
                           width |-> c.l.width, height |-> c.l.height,
                           depth |-> c.l.depth, colorMode |-> c.l.colorMode]])
    ELSE Throw(Set(c, "m_header", m_header))

\* the fields in file order
ParseFileHeader(c) ==
  LET magic == Let(Read32(c), "magic")
      version == Let(Read16(magic), "version")
      reserved == Read8Times(version, 6)
      nchannels == Let(Read16(reserved), "nchannels")
      height == Let(Read32(nchannels), "height")
      width == Let(Read32(height), "width")
      depth == Let(Read16(width), "depth")
      colorMode == Let(Read16(depth), "colorMode")
  IN StoreFileHeader(colorMode)

\* what decode_psd does with the context a section parser ends in: a throw
\* is caught and decode returns false, otherwise the next parser runs
Continue(c, next) ==
  /\ pos' = c.pos
  /\ m_ok' = c.ok
  /\ events' = c.ev
  /\ pc' = IF c.thrown THEN "returned"
           ELSE IF c.hang THEN "hang"
           ELSE IF c.beyond THEN "beyond"
           ELSE next
  /\ result' = IF c.thrown THEN "false"
               ELSE IF Live(c) /\ next = "returned" THEN "true" ELSE result

StoreAndContinue(c, next) ==
  /\ m_header' = c.l.m_header
  /\ Continue(c, next)

readFileHeader ==
  /\ pc = "readFileHeader"
  /\ StoreAndContinue(ParseFileHeader(Ctx), "readColorModeData")
  /\ UNCHANGED <<file, garbage>>

(***************************************************************************)
(* Decoder::readColorModeData                                              *)
(***************************************************************************)
HasColorModeData(colorMode) ==
  colorMode = ColorModeIndexed \/ colorMode = ColorModeDuotone

\* a palette that is read interleaved: r, g and b of an entry in a row
PaletteEntry_Interleaved(reds, greens, blues, i) ==
  [r |-> (reds \o greens \o blues)[3 * i + 1],
   g |-> (reds \o greens \o blues)[3 * i + 2],
   b |-> (reds \o greens \o blues)[3 * i + 3]]

\* the palette is stored planar: all reds, then all greens, then all blues
PaletteEntry(reds, greens, blues, i) ==
  [r |-> reds[i + 1], g |-> greens[i + 1], b |-> blues[i + 1]]

DeliverPalette(c) ==
  Emit(c, [type |-> "onColorModeData", length |-> c.l.length,
           colors |-> [i \in 1..PaletteColors |->
                         PaletteEntry(c.l.reds, c.l.greens, c.l.blues, i - 1)],
           data |-> <<>>])

ReadPalette(c) ==
  LET reds == Let(Read8Times(c, PaletteColors), "reds")
      greens == Let(Read8Times(reds, PaletteColors), "greens")
      blues == Let(Read8Times(greens, PaletteColors), "blues")
  IN DeliverPalette(blues)

DeliverRawColorData(c) ==
  Emit(c, [type |-> "onColorModeData", length |-> c.l.length,
           colors |-> <<>>, data |-> c.v])

\* c has just read data.length
ColorModeDataBody(c) ==
  IF c.v = 0
    THEN IF HasColorModeData(m_header.colorMode) THEN Throw(c) ELSE c
  ELSE IF m_header.colorMode = ColorModeIndexed
    THEN IF c.v # PaletteLength THEN Throw(c) ELSE ReadPalette(c)
  ELSE DeliverRawColorData(ReadVector(c, c.v))

ParseColorModeData(c) == ColorModeDataBody(Let(Read32(c), "length"))

readColorModeData ==
  /\ pc = "readColorModeData"
  /\ Continue(ParseColorModeData(Ctx), "readImageResources")
  /\ UNCHANGED <<file, garbage, m_header>>

(***************************************************************************)
(* Decoder::readPascalString and Decoder::readImageResources               *)
(***************************************************************************)
\* a pad that leaves the length byte out of the count
PascalPad_OfString(length, alignment) ==
  (alignment - (length % alignment)) % alignment

\* the pad bytes that follow the length byte and the string
PascalPad(length, alignment) ==
  (alignment - ((1 + length) % alignment)) % alignment

\* c has just read the string: the pad is read and the string returned
PascalStringPad(c, alignment) ==
  [Read8Times(c, PascalPad(Len(c.v), alignment)) EXCEPT !.v = c.v]

\* c has just read the length byte
PascalStringBody(c, alignment) ==
  PascalStringPad(Read8Times(c, c.v), alignment)

ReadPascalString(c, alignment) == PascalStringBody(Read8(c), alignment)

resIDHasDescriptor(resID) ==
  resID \in {1065, 1074, 1075, 1076, 1078, 1080, 1082, 1083, 1088, 3000}

\* ImageResourceSection::ANDS
Key_ANDS == 1097745523

\* the version a descriptor is parsed for
DescriptorVersion == 16

\* the resource with the animation frames and the one with the slices
ResIDAnimationFrames == 4003

ResIDSlices == 1050

\* c has just read descVersion: a descriptor that is parsed and dropped
ResourceDescriptor(c) ==
  IF c.v = DescriptorVersion THEN ParseDescriptor(c) ELSE c

\* the keys readAnimatedDataSection looks up: "FSts", "AFrm", "FrIn",
\* "FrDl", "FrID" and "FrGA"
Key_FSts == <<70, 83, 116, 115>>

Key_AFrm == <<65, 70, 114, 109>>

Key_FrIn == <<70, 114, 73, 110>>

Key_FrDl == <<70, 114, 68, 108>>

Key_FrID == <<70, 114, 73, 68>>

Key_FrGA == <<70, 114, 71, 65>>

\* frameStates.size() == 1: the item is cast to a descriptor, which throws
\* when it is none, and AFrm is looked up in it
SingleFrameState(c, item) ==
  IF item.type # OSTypeKey.Descriptor
    THEN Throw(c)
    ELSE Set(c, "activeFrameIndex",
             NumberValue(Find(item.descriptor, Key_AFrm)))

\* uint32_t activeFrameIndex = 0, and what the list FSts makes of it
ActiveFrameIndex(c, framesStatePtr) ==
  IF framesStatePtr.type # 0 /\ Len(framesStatePtr.values) = 1
    THEN SingleFrameState(Set(c, "activeFrameIndex", 0),
                          framesStatePtr.values[1])
    ELSE Set(c, "activeFrameIndex", 0)

\* FrameInformation frameInfo, whose fields are 0 until they are set
FrameInformation(frameDescriptor) ==
  [id |-> NumberValue(Find(frameDescriptor, Key_FrID)),
   duration |-> NumberValue(Find(frameDescriptor, Key_FrDl)),
   ga |-> NumberValue(Find(frameDescriptor, Key_FrGA))]

\* the for loop over frameListPtr->values
RECURSIVE FrameInfoList(_)
FrameInfoList(values) ==
  IF Len(values) = 0
    THEN <<>>
    ELSE (IF Head(values).type = OSTypeKey.Descriptor
            THEN <<FrameInformation(Head(values).descriptor)>>
            ELSE <<>>)
           \o FrameInfoList(Tail(values))

\* c has the active frame index: the list FrIn and the event
AnimatedFrames(c, desc) ==
  IF ~Live(c) THEN c
  ELSE IF GetValue(desc.descriptor, Key_FrIn, OSTypeKey.List).type = 0
    THEN Returns(c, Nullptr)
  ELSE Returns(Emit(c, [type |-> "onFramesData",
                        framesInfo |->
                          FrameInfoList(GetValue(desc.descriptor, Key_FrIn,
                                                 OSTypeKey.List).values),
                        activeFrameIndex |-> c.l.activeFrameIndex]),
               desc)

\* c has just parsed the descriptor
AnimatedData(c) ==
  IF ~Live(c) THEN c
  ELSE AnimatedFrames(
         ActiveFrameIndex(c, GetValue(c.v.descriptor, Key_FSts,
                                      OSTypeKey.List)),
         c.v)

\* c has just read descVersion
AnimatedDataVersion(c) ==
  IF c.v # DescriptorVersion
    THEN Returns(c, Nullptr)
    ELSE AnimatedData(ParseDescriptor(c))

\* readAnimatedDataSection: the data length, the version, the descriptor
ReadAnimatedDataSection(c) ==
  IF Live(c)
    THEN ReturnValue(AnimatedDataVersion(Read32(Read32(Enter(c)))))
    ELSE c

\* c has just read the key of resource 4003
AnimationFramesKey(c) ==
  IF c.v = Key_ANDS
    THEN Let(ReadAnimatedDataSection(c), "descriptor")
    ELSE c

\* c has just read the signature of resource 4003
AnimationFramesSignature(c) ==
  IF c.v = PSD_LAYER_INFO_MAGIC_NUMBER
    THEN AnimationFramesKey(Read32(c))
    ELSE c

\* resource 4003: three unknown blocks, the signature and the key
AnimationFrames(c) ==
  AnimationFramesSignature(Read32(Read32(Read32(Read32(c)))))

\* c has just read descVersion of the slices: the descriptor is parsed and
\* handed to getSlices
SlicesDescriptor(c) ==
  IF c.v = DescriptorVersion THEN Beyond(ParseDescriptor(c)) ELSE c

\* c has just read the version of readResourceSlices: version 6 has its own
\* reader, 7 and 8 a descriptor version and a descriptor
ResourceSlicesVersion(c) ==
  IF c.v < 6 \/ c.v > 8 THEN c
  ELSE IF c.v = 6 THEN ReadResourceSlicesV6(c)
  ELSE SlicesDescriptor(Read32(c))

ReadResourceSlices(c) == ResourceSlicesVersion(Read32(c))

\* c has just read descVersion: res.descriptor = parseDescriptor()
StoredDescriptor(c) ==
  IF c.v = DescriptorVersion THEN Let(ParseDescriptor(c), "descriptor") ELSE c

\* ImageResource res: no data and no descriptor
NewImageResource(c) == Set(Set(c, "data", <<>>), "descriptor", Nullptr)

\* c has just read resLength: the payload of the resource.  Only the last
\* branch fills res.data.
ResourcePayload(c) ==
  IF c.l.resLength = 0
    THEN c
  ELSE IF resIDHasDescriptor(c.l.resID)
    THEN StoredDescriptor(Read32(c))
  ELSE IF c.l.resID = ResIDAnimationFrames
    THEN AnimationFrames(c)
  ELSE IF c.l.resID = ResIDSlices
    THEN ReadResourceSlices(c)
  ELSE Let(ReadVector(c, c.l.resLength), "data")

\* the pad byte of an odd length, read from where the payload's parser stopped
ResourceSeekAndPad_NoSeek(c) ==
  IF c.l.resLength % 2 = 1 THEN Read8(c) ELSE c

\* seek to the end of the payload, then the pad byte of an odd length
ResourceSeekAndPad(c) ==
  IF c.l.resLength % 2 = 1
    THEN Read8(Seek(c, c.l.filePos + c.l.resLength))
    ELSE Seek(c, c.l.filePos + c.l.resLength)

DeliverResource(c) ==
  Emit(c, [type |-> "onImageResource", resourceID |-> c.l.resID,
           name |-> c.l.name, data |-> c.l.data,
           descriptor |-> c.l.descriptor])

\* one record of the loop, from its magic (already read) to resEnd
ReadResourceRecord(c) ==
  LET resID == Let(Read16(c), "resID")
      name == Let(ReadPascalString(resID, 2), "name")
      resLength == LetTell(Let(Read32(name), "resLength"), "filePos")
      payload == ResourcePayload(NewImageResource(resLength))
      padded == ResourceSeekAndPad(payload)
  IN DeliverResource(padded)

\* the while loop.  The local `length` is the uint32 counter, kept as its
\* representative modulo 2^32 in -2^31 .. 2^31-1: the unsigned value is
\* greater than 0 exactly when the representative is not 0.
RECURSIVE ResourceLoop(_)
\* length -= (resEnd - resBegin)
ResourceLoopNext(c) == Set(c, "length", c.l.length - (c.pos - c.l.resBegin))

\* c has just read the magic of a record
ResourceLoopBody(c) ==
  IF c.v # PSD_IMAGE_BLOCK_MAGIC_NUMBER
    THEN c
    ELSE ResourceLoop(ResourceLoopNext(ReadResourceRecord(c)))

ResourceLoop(c) ==
  IF c.l.length = 0
    THEN c
    ELSE ResourceLoopBody(Read32(LetTell(c, "resBegin")))

\* m_file->seek(end); return (length == 0)
ResourcesEnd(c) == [Seek(c, c.l.end) EXCEPT !.v = (c.l.length = 0)]

\* c has just read the length of the section
ResourcesBody(c) ==
  ResourcesEnd(ResourceLoop(Set(Let(c, "length"), "end", c.pos + c.v)))

\* v is the value readImageResources returns
ParseImageResources(c) == ResourcesBody(Read32(c))

\* decode_psd ignores the value readImageResources returns
readImageResources ==
  /\ pc = "readImageResources"
  /\ Continue(ParseImageResources(Ctx), "readLayersAndMask")
  /\ UNCHANGED <<file, garbage, m_header>>

(***************************************************************************)
(* Decoder::readImage                                                      *)
(***************************************************************************)
\* the size of the scanline buffer: the row's bytes, rounded up to even
ScanlineSize(img) ==
  LET size == IF img.depth >= 8
                THEN img.width * (img.depth \div 8)
                ELSE (img.width \div img.depth)
                     + (IF img.width % img.depth # 0 THEN 1 ELSE 0)
  IN IF size % 2 = 1 THEN size + 1 ELSE size

\* int8_t(byte)
Int8(b) == IF b >= 128 THEN b - 256 ELSE b

\* the bytes a raw row pushes into rawData, from the bytes b that the row's
\* k successful read8 calls returned: read16 and read32 return 0 once the
\* source is not ok, and a 16-bit word is pushed low byte first
RawRowData(c, width, depth, b, k) ==
  CASE depth = 1 -> b
    [] depth = 8 -> b
    [] depth = 16 ->
         [i \in 1..(2 * width) |->
            LET px == (i + 1) \div 2
            IN IF c.ok /\ 2 * px <= k
                 THEN (IF i % 2 = 1 THEN b[i + 1] ELSE b[i - 1])
                 ELSE 0]
    [] depth = 32 ->
         [i \in 1..(4 * width) |->
            LET px == (i + 3) \div 4
            IN IF c.ok /\ 4 * px <= k THEN b[i] ELSE 0]

\* the read8 calls of one raw row
RawRowReads(width, depth) ==
  CASE depth = 1 -> (width + 7) \div 8
    [] depth = 8 -> width
    [] depth = 16 -> 2 * width
    [] depth = 32 -> 4 * width

\* rows y .. height-1 of one channel of raw image data
RECURSIVE RawRows(_, _, _, _)
RawRows(c, img, chanID, y) ==
  IF ~Live(c) \/ y >= img.height
    THEN c
  ELSE IF img.width > 0 /\ ~ValidDepth(img.depth)
    THEN Throw(c)
  ELSE LET n == IF img.width > 0 THEN RawRowReads(img.width, img.depth) ELSE 0
           r == Read8Times(c, n)
           k == r.pos - c.pos
           data == IF n = 0 THEN <<>>
                   ELSE RawRowData(c, img.width, img.depth, r.v, k)
       IN RawRows(Emit(r, [type |-> "onImageScanline", img |-> img, y |-> y,
                           chanID |-> chanID, data |-> data]),
                  img, chanID, y + 1)

\* buf with the bytes vals written at the 0-based index it and after, as far
\* as the buffer reaches
WriteAt(buf, it, vals) ==
  [i \in 1..Len(buf) |->
     IF i > it /\ i - it <= Len(vals) THEN vals[i - it] ELSE buf[i]]

\* the while (remaining > 0) loop of one RLE row; .c the context, .buf the
\* scanline buffer, .it the 0-based index of the iterator
RECURSIVE RleOpcodes(_, _, _, _)
RleOpcodes(c, remaining, buf, it) ==
  IF remaining <= 0
    THEN [c |-> c, buf |-> buf, it |-> it]
    ELSE LET op == FileRead8(c)
             n == Int8(op.v)
             room == Len(buf) - it
         IN IF n = -128
              THEN RleOpcodes(op, remaining - 1, buf, it)
            ELSE IF n >= 0
              THEN LET w == Min(n + 1, room)
                       lit == Read8Times(op, w)
                   IN RleOpcodes(lit, (remaining - 1) - (n + 1),
                                 WriteAt(buf, it, lit.v), it + w)
            ELSE LET data == Read8(op)
                     w == Min(1 - n, room)
                 IN RleOpcodes(data, (remaining - 1) - 1,
                               WriteAt(buf, it, [i \in 1..w |-> data.v]), it + w)

\* the rest of the buffer is zero-filled from the iterator on
ZeroFill(buf, it) == [i \in 1..Len(buf) |-> IF i > it THEN 0 ELSE buf[i]]

\* rows y .. height-1 of one channel of 8-bit RLE data; byteCounts is the
\* whole table and cur the index (0-based) of this row's count.
\* .c the context, .buf the scanline buffer
RECURSIVE RleRows(_, _, _, _, _, _, _)
RleRows(c, img, chanID, y, byteCounts, cur, buf) ==
  IF ~Live(c) \/ y >= img.height
    THEN [c |-> c, buf |-> buf]
    ELSE LET row == RleOpcodes(c, byteCounts[cur + 1], buf, 0)
             line == ZeroFill(row.buf, row.it)
         IN IF ~row.c.ok
              THEN [c |-> Throw(row.c), buf |-> row.buf]
              ELSE RleRows(Emit(row.c, [type |-> "onImageScanline", img |-> img,
                                        y |-> y, chanID |-> chanID, data |-> line]),
                           img, chanID, y + 1, byteCounts, cur + 1, line)

\* the table of scanline byte counts: n calls of read16or32Length
RECURSIVE ReadByteCounts(_, _, _)
ReadByteCounts(c, n, acc) ==
  IF n <= 0
    THEN [c EXCEPT !.v = acc]
    ELSE LET r == Read16or32Length(c)
         IN ReadByteCounts(r, n - 1, Append(acc, r.v))

\* the loop over the channels, from channel number ch (1-based) on
RECURSIVE ImageChannels(_, _, _, _, _)
ImageChannels(c, img, ch, byteCounts, buf) ==
  IF ch > Len(img.channels) \/ ~Live(c)
    THEN c
    ELSE LET chanID == img.channels[ch]
             cur == (ch - 1) * img.height
         IN IF img.compressionMethod = RawImageData
              THEN ImageChannels(RawRows(c, img, chanID, 0), img, ch + 1,
                                 byteCounts, buf)
            ELSE IF img.compressionMethod = RLE /\ m_header.depth = 8
              THEN LET rows == RleRows(c, img, chanID, 0, byteCounts, cur, buf)
                   IN ImageChannels(rows.c, img, ch + 1, byteCounts, rows.buf)
            ELSE ImageChannels(c, img, ch + 1, byteCounts, buf)

\* std::vector<uint8_t> scanline(scanlineSize): only the RLE rows use it
NewScanline(img) ==
  IF img.compressionMethod = RLE /\ m_header.depth = 8
    THEN [i \in 1..ScanlineSize(img) |-> 0]
    ELSE <<>>

\* the table of byte counts of RLE data.  A negative height makes the size
\* that resize() is asked for huge, and resize() throws std::length_error.
ImageByteCounts(c, img) ==
  IF img.compressionMethod # RLE
    THEN [c EXCEPT !.v = <<>>]
  ELSE IF img.height < 0
    THEN Throw(c)
  ELSE ReadByteCounts(c, img.height * Len(img.channels), <<>>)

\* c has just read the byte counts
ImageBody(c, img) == ImageChannels(c, img, 1, c.v, NewScanline(img))

ReadImage(c, img) ==
  IF Live(c)
    THEN Emit(ImageBody(ImageByteCounts(Emit(c, [type |-> "onBeginImage",
                                                  img |-> img]), img), img),
              [type |-> "onEndImage", img |-> img])
    ELSE c

(***************************************************************************)
(* Decoder::getUnicodeString and Decoder::readSectionDivider               *)
(***************************************************************************)
Key_lsct == 1819501428

Key_luni == 1819635305

Key_lyid == 1819896164

Key_Lr16 == 1282552118

Key_Lr32 == 1282552626

Key_Layr == 1281456498

Key_lnsr == 1819177842

Key_Patt == 1348564084

Key_cinf == 1667853926

Key_SoLE == 1399802949

Key_SoLd == 1399802980

Key_anFX == 1634616920

Key_shmd == 1936223588

Key_mlst == 1835823988

Key_cust == 1668641652

Key_tmln == 1953328238

\* LayerBlendMode::Normal
Key_norm == 1852797549

\* the keys whose data length is 64 bits wide in a PSB file (LMsk, Lr16,
\* Lr32, Layr, Mt16, Mt32, Mtrn, Alph, FMsk, lnk2, FEid, FXid, PxSD)
LongLengthKeys ==
  {1280144235, Key_Lr16, Key_Lr32, Key_Layr, 1299460406, 1299460914,
   1299477102, 1097625704, 1179480939, 1819175730, 1178954084, 1180199268,
   1350062916}

\* a LayerRecord as its constructor leaves it: the scalar fields are not
\* initialised
NewLayerRecord(c) ==
  [top |-> Junk(c), left |-> Junk(c), bottom |-> Junk(c), right |-> Junk(c),
   layerID |-> Junk(c), channels |-> <<>>, inFrames |-> <<>>,
   blendMode |-> Junk(c), sectionType |-> Junk(c), opacity |-> Junk(c),
   clipping |-> Junk(c), flags |-> Junk(c), name |-> <<>>]

LayerWidth(layerRecord) == layerRecord.right - layerRecord.left

LayerHeight(layerRecord) == layerRecord.bottom - layerRecord.top

\* layerRecord.field = the value just read
SetField(c, field) ==
  Set(c, "layerRecord", [c.l.layerRecord EXCEPT ![field] = c.v])

\* c has just read subType
SectionDividerSubType(c) ==
  IF c.v # 0 /\ c.v # 1 THEN Throw(c) ELSE c

\* c has just read bm
SectionDividerBlendMode(c) ==
  IF c.l.length < 16 THEN c ELSE SectionDividerSubType(Read32(c))

\* c has just read signature
SectionDividerSignature(c) ==
  IF c.v # PSD_LAYER_INFO_MAGIC_NUMBER
    THEN Throw(c)
    ELSE SectionDividerBlendMode(Read32(c))

\* c has just stored the section type
SectionDividerType(c) ==
  IF c.l.length < 12 THEN c ELSE SectionDividerSignature(Read32(c))

ReadSectionDivider(c, length) ==
  ReturnRef(SectionDividerType(
              SetField(Read32(Set(EnterRef(c), "length", length)),
                       "sectionType")),
            TRUE)

(***************************************************************************)
(* Decoder::readAdditionalLayerInfo                                        *)
(***************************************************************************)
RECURSIVE ReadLayersInfoLength(_, _)

\* if (origLength & 1) ++dataLength
PaddedLength(dataLength) ==
  IF dataLength % 2 = 1 THEN dataLength + 1 ELSE dataLength

\* m_file->seek(fileBegin + dataLength); return dataLength
AdditionalInfoEnd(c) ==
  ReturnRef(Seek(c, c.l.fileBegin + PaddedLength(c.l.dataLength)),
            PaddedLength(c.l.dataLength))

\* c has just read the version of a cinf block
CompositorInfo(c) ==
  IF c.v # DescriptorVersion THEN Throw(c) ELSE ParseDescriptor(c)

\* c has just read the version of a SoLE block, after its type
SmartObjectVersion(c) ==
  IF c.l.type = Key_SoLd /\ (c.v = 4 \/ c.v = 5) THEN ParseDescriptor(c) ELSE c

SmartObject(c) == SmartObjectVersion(Read32(Let(Read32(c), "type")))

\* the keys readLayerMLSTSection looks up: "LaID", "LaSt", "FrLs" and "enab"
Key_LaID == <<76, 97, 73, 68>>

Key_LaSt == <<76, 97, 83, 116>>

Key_FrLs == <<70, 114, 76, 115>>

Key_enab == <<101, 110, 97, 98>>

\* the inner for loop: one FrameVisibility for each value of FrLs
FrameVisibilities(frameIDs, layerIsVisible) ==
  [i \in 1..Len(frameIDs) |->
     [frameID |-> NumberValue(frameIDs[i]),
      isVisibleInFrame |-> layerIsVisible]]

\* layerIsVisible after the descriptor of a layer state was looked at
VisibleAfter(layerDesc, layerIsVisible) ==
  IF GetValue(layerDesc, Key_enab, OSTypeKey.Boolean).type # 0
    THEN GetValue(layerDesc, Key_enab, OSTypeKey.Boolean).value
    ELSE layerIsVisible

\* what the descriptor of a layer state adds to layerRecord.inFrames
FramesOfState(layerDesc, layerIsVisible) ==
  IF GetValue(layerDesc, Key_FrLs, OSTypeKey.List).type # 0
    THEN FrameVisibilities(GetValue(layerDesc, Key_FrLs, OSTypeKey.List).values,
                           VisibleAfter(layerDesc, layerIsVisible))
    ELSE <<>>

\* the for loop over layerStatesPtr->values: layerIsVisible is kept from one
\* layer state to the next
RECURSIVE LayerStates(_, _, _)
LayerStates(values, layerIsVisible, inFrames) ==
  IF Len(values) = 0 THEN inFrames
  ELSE IF Head(values).type # OSTypeKey.Descriptor
    THEN LayerStates(Tail(values), layerIsVisible, inFrames)
  ELSE LayerStates(Tail(values),
                   VisibleAfter(Head(values).descriptor, layerIsVisible),
                   inFrames \o FramesOfState(Head(values).descriptor,
                                             layerIsVisible))

\* c has just parsed the descriptor: LaID and LaSt must be there and LaID
\* must be the layer's id, which is not initialised before a lyid block
LayerStatesOf(c, descMap) ==
  IF ~Live(c) THEN c
  ELSE IF Find(descMap, Key_LaID).type = 0
          \/ GetValue(descMap, Key_LaSt, OSTypeKey.List).type = 0
    THEN c
  ELSE IF c.l.layerRecord.layerID # NumberValue(Find(descMap, Key_LaID))
    THEN c
  ELSE Set(c, "layerRecord",
           [c.l.layerRecord EXCEPT
              !.inFrames =
                LayerStates(GetValue(descMap, Key_LaSt, OSTypeKey.List).values,
                            TRUE, @)])

\* c has just parsed the descriptor
LayerStatesOfDescriptor(c) ==
  IF Live(c) THEN LayerStatesOf(c, c.v.descriptor) ELSE c

\* the version is read and not looked at
ReadLayerMLSTSection(c) ==
  IF ~Live(c) THEN c
  ELSE ReturnRef(LayerStatesOfDescriptor(ParseDescriptor(Read32(EnterRef(c)))),
                 TRUE)

\* readLayerCUSTSection and readLayerTMLNSection parse a descriptor when
\* the version is 16, and store nothing of it
MetadataSection(c) ==
  IF c.l.metaKey = Key_mlst
    THEN ReadLayerMLSTSection(c)
  ELSE IF c.l.metaKey = Key_cust \/ c.l.metaKey = Key_tmln
    THEN ResourceDescriptor(Read32(c))
  ELSE c

\* the for loop of the shmd block, metadataCount - i items being left
RECURSIVE MetadataItems(_, _)
\* c has just read sig
MetadataItem(c, left) ==
  IF c.v # PSD_LAYER_INFO_MAGIC_NUMBER
    THEN Throw(c)
    ELSE LET metaKey == Let(Read32(c), "metaKey")
             metaDataLength ==
               LetTell(Let(Read32(Read8(Read16(Read8(metaKey)))),
                           "metaDataLength"),
                       "metaPos")
             section == MetadataSection(metaDataLength)
         IN MetadataItems(Seek(section,
                               section.l.metaPos + section.l.metaDataLength),
                          left - 1)

MetadataItems(c, left) ==
  IF ~Live(c) \/ left <= 0 THEN c ELSE MetadataItem(Read32(c), left)

\* c has just read metadataCount
Metadata(c) == MetadataItems(c, c.v)

\* the branch of the key
AdditionalInfoBody(c) ==
  IF c.l.key = Key_lsct
    THEN ReadSectionDivider(c, c.l.dataLength)
  ELSE IF c.l.key = Key_cinf
    THEN CompositorInfo(Read32(c))
  ELSE IF c.l.key = Key_luni
    \* the name that is read is a local that is dropped
    THEN GetUnicodeString(c)
  ELSE IF c.l.key = Key_lyid
    THEN SetField(Read32(c), "layerID")
  ELSE IF c.l.key = Key_SoLE
    THEN SmartObject(c)
  ELSE IF c.l.key \in {Key_Lr16, Key_Lr32, Key_Layr}
    \* LayersInformation layersInfo is a local that is dropped
    THEN ReadLayersInfoLength(c, c.l.dataLength)
  ELSE IF c.l.key = Key_anFX
    THEN ResourceDescriptor(Read32(c))
  ELSE IF c.l.key = Key_shmd
    THEN Metadata(Read32(c))
  ELSE c

\* c has just read the key
AdditionalInfoLength(c) ==
  IF m_header.version = VersionPsb /\ c.v \in LongLengthKeys
    THEN Read64(c)
    ELSE Read32(c)

\* c has just read the signature
AdditionalInfoKey(c) ==
  IF c.v # PSD_LAYER_INFO_MAGIC_NUMBER /\ c.v # PSD_LAYER_INFO_MAGIC_NUMBER2
    THEN ReturnRef(c, 0)
    ELSE AdditionalInfoEnd(
           AdditionalInfoBody(
             LetTell(Let(AdditionalInfoLength(Let(Read32(c), "key")),
                         "dataLength"),
                     "fileBegin")))

\* v is the length readAdditionalLayerInfo returns
ReadAdditionalLayerInfo(c) ==
  IF Live(c) THEN AdditionalInfoKey(Read32(EnterRef(c))) ELSE c

(***************************************************************************)
(* Decoder::readLayerRecord                                                *)
(***************************************************************************)
\* int16_t(read16())
Int16(v) == IF v >= 32768 THEN v - 65536 ELSE v

\* the channel table of a layer record: n times an id and a length
RECURSIVE ReadChannelTable(_, _, _)
ReadChannelTable(c, n, acc) ==
  IF n <= 0 \/ ~Live(c)
    THEN [c EXCEPT !.v = acc]
    ELSE LET id == Read16(c)
             length == Read32or64Length(id)
         IN ReadChannelTable(length, n - 1,
                             Append(acc, [channelID |-> Int16(id.v),
                                          length |-> length.v]))

\* c has just read nchannels
LayerChannelTable(c) == ReadChannelTable(c, c.v, <<>>)

\* while (tell() < expectedPos) if (readAdditionalLayerInfo() == 0) break;
RECURSIVE LayerExtraBlocks(_)
\* c has just returned from readAdditionalLayerInfo
LayerExtraBlocksNext(c) ==
  IF ~Live(c) \/ c.v = 0 THEN c ELSE LayerExtraBlocks(c)

LayerExtraBlocks(c) ==
  IF ~(c.pos < c.l.expectedPos)
    THEN c
    ELSE LayerExtraBlocksNext(ReadAdditionalLayerInfo(c))

\* layerRecord.sectionType = SectionType::Others
SetSectionTypeOthers(c) ==
  Set(c, "layerRecord", [c.l.layerRecord EXCEPT !.sectionType = 0])

\* const size_t expectedPos = beforeDataPos + length
SetExpectedPos(c) == Set(c, "expectedPos", c.l.beforeDataPos + c.l.length)

\* m_file->seek(expectedPos); return true: v is the record that was filled
LayerRecordEnd(c) == Return(Seek(c, c.l.expectedPos), c.l.layerRecord)

\* the fields from the top to the magic number
LayerRecordHead(c) ==
  LET top == SetField(Read32(c), "top")
      left == SetField(Read32(top), "left")
      bottom == SetField(Read32(left), "bottom")
      right == SetField(Read32(bottom), "right")
      channels == SetField(LayerChannelTable(Read16(right)), "channels")
  IN Read32(channels)

\* c has just read the magic number
LayerRecordTail(c) ==
  IF c.v # PSD_BLEND_MODE_MAGIC_NUMBER
    THEN Throw(c)
    ELSE LET bm == SetField(Read32(c), "blendMode")
             opacity == SetSectionTypeOthers(SetField(Read8(bm), "opacity"))
             clipping == SetField(Read8(opacity), "clipping")
             flags == SetField(Read8(clipping), "flags")
             length == LetTell(Let(Read32(Read8(flags)), "length"),
                               "beforeDataPos")
             maskLength == SeekRel(Read32(length))
             blendingRangesLength == SeekRel(Read32(maskLength))
             name == SetField(ReadPascalString(blendingRangesLength, 4), "name")
         IN LayerExtraBlocks(SetExpectedPos(name))

\* LayerRecord layerRecord; readLayerRecord(layers, layerRecord)
ReadLayerRecord(c) ==
  LayerRecordEnd(
    LayerRecordTail(
      LayerRecordHead(Set(Enter(c), "layerRecord", NewLayerRecord(c)))))

(***************************************************************************)
(* Decoder::readLayersInfo                                                 *)
(***************************************************************************)
\* int16_t nlayers = read16(); if (nlayers < 0) nlayers = -nlayers; the loop
\* runs to uint16_t(nlayers)
LayerCount(v) == IF v >= 32768 THEN 65536 - v ELSE v

\* an append that puts the new record before the others
AddLayer_Front(c) ==
  Set(Set(c, "layers", <<c.v>> \o c.l.layers), "i", c.l.i + 1)

\* layers.layers.push_back(layerRecord); ++i
AddLayer(c) ==
  Set(Set(c, "layers", Append(c.l.layers, c.v)), "i", c.l.i + 1)

\* the loop that reads the layer records
RECURSIVE ReadLayerRecords(_)
ReadLayerRecords(c) ==
  IF ~Live(c) \/ ~(c.l.i < c.l.nlayers)
    THEN c
    ELSE ReadLayerRecords(AddLayer(ReadLayerRecord(c)))

\* the layer and the channel the two loops over the channel data are at
CurrentLayer(c) == c.l.layers[c.l.li]

CurrentChannel(c) == CurrentLayer(c).channels[c.l.ci]

\* c has just read the compression of the channel
ChannelImageData(c) ==
  [depth |-> m_header.depth, compressionMethod |-> c.v,
   width |-> LayerWidth(CurrentLayer(c)),
   height |-> LayerHeight(CurrentLayer(c)),
   channels |-> <<CurrentChannel(c).channelID>>]

ReadChannelImage(c) == ReadImage(c, ChannelImageData(c))

\* m_file->seek(fileEnd); fileBegin = fileEnd, and the next channel
ChannelNext(c) ==
  Set(Set(Seek(c, c.l.fileBegin + CurrentChannel(c).length),
          "fileBegin", c.l.fileBegin + CurrentChannel(c).length),
      "ci", c.l.ci + 1)

\* the loop over the channels of one layer
RECURSIVE LayerChannelImages(_)
LayerChannelImages(c) ==
  IF ~Live(c) \/ c.l.ci > Len(CurrentLayer(c).channels)
    THEN c
    ELSE LayerChannelImages(ChannelNext(ReadChannelImage(Read16(c))))

\* the end of a layer that is not delivered
EndLayer_Silent(c) ==
  IF Live(c) THEN Set(c, "li", c.l.li + 1) ELSE c

BeginLayer(c) ==
  Set(Emit(c, [type |-> "onBeginLayer", layer |-> CurrentLayer(c)]), "ci", 1)

EndLayer(c) ==
  IF Live(c)
    THEN Set(Emit(c, [type |-> "onEndLayer", layer |-> CurrentLayer(c)]),
             "li", c.l.li + 1)
    ELSE c

\* the loop over the layers that reads each layer's channel data
RECURSIVE LayersChannelData(_)
LayersChannelData(c) ==
  IF ~Live(c) \/ c.l.li > Len(c.l.layers)
    THEN c
    ELSE LayersChannelData(EndLayer(LayerChannelImages(BeginLayer(c))))

\* c has just read nlayers
LayersInfoCount(c) ==
  Set(Set(Set(c, "nlayers", LayerCount(c.v)), "i", 0),
      "firstChannelIsTransparency", c.v >= 32768)

\* c has just read the compression: the image of the merged result's
\* transparency
MergedTransparencyImage(c) ==
  [depth |-> m_header.depth, compressionMethod |-> c.v,
   width |-> m_header.width, height |-> m_header.height,
   channels |-> <<ChannelTransparencyMask>>]

\* the branch with its condition being firstChannelIsTransparency alone
MergedTransparency_Enabled(c) ==
  IF c.l.firstChannelIsTransparency
    THEN ReadImage(Read16(c), MergedTransparencyImage(Read16(c)))
    ELSE c

\* if (false && firstChannelIsTransparency) { ... readImage(img); }
MergedTransparency(c) ==
  IF FALSE /\ c.l.firstChannelIsTransparency
    THEN ReadImage(Read16(c), MergedTransparencyImage(Read16(c)))
    ELSE c

\* uint32_t fileBegin = m_file->tell(), and the first layer
LayersInfoData(c) == Set(LetTell(c, "fileBegin"), "li", 1)

\* m_file->seek(beg + length); return true: v is what `layers` holds
LayersInfoEnd(c) == Return(Seek(c, c.l.beg + c.l.length), c.l.layers)

\* readLayersInfo(length, layers) with an empty `layers`
ReadLayersInfoLength(c, length) ==
  IF ~Live(c)
    THEN c
  ELSE IF length = 0
    THEN [c EXCEPT !.v = <<>>]
    ELSE LayersInfoEnd(
           LayersChannelData(
             LayersInfoData(
               MergedTransparency(ReadLayerRecords(
                 LayersInfoCount(
                   Read16(LetTell(Set(Set(Enter(c), "length", length),
                                      "layers", <<>>),
                                  "beg"))))))))

\* c has just read the length
LayersInfoBody(c) == ReadLayersInfoLength(c, c.v)

\* readLayersInfo(layers)
ReadLayersInfo(c) ==
  IF Live(c) THEN LayersInfoBody(Read32or64Length(c)) ELSE c

(***************************************************************************)
(* Decoder::readGlobalMaskInfo                                             *)
(***************************************************************************)
\* the two checks of readGlobalMaskInfo, each of which throws
MaskInfoAccepted(maskOpacity, maskKind) ==
  /\ ~(maskOpacity > MaxMaskOpacity)
  /\ ~(maskKind # 0 /\ maskOpacity # 1 /\ maskKind # 128)

\* c has just read maskKind
StoreMaskInfo(c) ==
  IF ~MaskInfoAccepted(c.l.maskOpacity, c.v)
    THEN Throw(c)
    ELSE Seek(Set(c, "maskInfo", [opacity |-> c.l.maskOpacity, kind |-> c.v]),
              c.l.filePos + c.l.length)

\* c has just read the length
GlobalMaskBody(c) ==
  IF c.v = 0
    THEN c
    ELSE StoreMaskInfo(Read8(Let(Read16(Read64(Read16(c))), "maskOpacity")))

\* layers.maskInfo, which no constructor initialises
NewMaskInfo(c) == [opacity |-> Junk(c), kind |-> Junk(c)]

\* return true: v is what layers.maskInfo holds
GlobalMaskEnd(c) == Return(c, c.l.maskInfo)

ReadGlobalMaskInfo(c) ==
  IF Live(c)
    THEN GlobalMaskEnd(
           GlobalMaskBody(
             Let(Read32(LetTell(Set(Enter(c), "maskInfo", NewMaskInfo(c)),
                                "filePos")),
                 "length")))
    ELSE c

(***************************************************************************)
(* Decoder::readLayersAndMask                                              *)
(***************************************************************************)
\* while ((tell() - (beg+length)) > 4) readAdditionalLayerInfo(layerRecord);
\* the difference is unsigned: it is greater than 4 also when tell() is
\* before the end.  `before` is the position an iteration starts at: the
\* position only grows, and an iteration that leaves it where it was leaves
\* everything as it was, so the loop repeats for ever.
RECURSIVE TaggedBlocks(_)
\* c has just returned from readAdditionalLayerInfo
TaggedBlocksNext(c) ==
  IF ~Live(c) THEN c
  ELSE IF c.pos = c.l.before THEN Hang(c)
  ELSE TaggedBlocks(c)

TaggedBlocks(c) ==
  IF c.pos - (c.l.beg + c.l.length) >= 0 /\ c.pos - (c.l.beg + c.l.length) <= 4
    THEN c
    ELSE TaggedBlocksNext(ReadAdditionalLayerInfo(LetTell(c, "before")))

\* if (m_file->tell() < beg+length) { LayerRecord layerRecord; while ... }
LayersAndMaskTagged(c) ==
  IF Live(c) /\ c.pos < c.l.beg + c.l.length
    THEN TaggedBlocks(Set(c, "layerRecord", NewLayerRecord(c)))
    ELSE c

\* a section end that delivers the layers twice
LayersAndMaskEnd_DeliveredTwice(c) ==
  Seek(Emit(Emit(c, [type |-> "onLayersAndMask",
                     layers |-> [layers |-> c.l.layers,
                                 maskInfo |-> c.l.maskInfo]]),
            [type |-> "onLayersAndMask",
             layers |-> [layers |-> c.l.layers, maskInfo |-> c.l.maskInfo]]),
       c.l.beg + c.l.length)

\* onLayersAndMask(layers); m_file->seek(beg + length)
LayersAndMaskEnd(c) ==
  Seek(Emit(c, [type |-> "onLayersAndMask",
                layers |-> [layers |-> c.l.layers, maskInfo |-> c.l.maskInfo]]),
       c.l.beg + c.l.length)

\* the length of the section, its begin and the layers info
LayersAndMaskInfo(c) ==
  Let(ReadLayersInfo(LetTell(Let(Read32or64Length(c), "length"), "beg")),
      "layers")

ParseLayersAndMask(c) ==
  LayersAndMaskEnd(
    LayersAndMaskTagged(
      Let(ReadGlobalMaskInfo(LayersAndMaskInfo(c)), "maskInfo")))

readLayersAndMask ==
  /\ pc = "readLayersAndMask"
  /\ Continue(ParseLayersAndMask(Ctx), "readImageData")
  /\ UNCHANGED <<file, garbage, m_header>>

(***************************************************************************)
(* Decoder::readImageData                                                  *)
(***************************************************************************)
\* a switch that has the two channels of case 2 in the other order
CompositeChannels_Swapped(nchannels) ==
  CASE nchannels = 1 -> <<ChannelAlpha>>
    [] nchannels = 2 -> <<ChannelRed, ChannelTransparencyMask>>
    [] nchannels = 3 -> <<ChannelRed, ChannelGreen, ChannelBlue>>
    [] nchannels = 4 -> <<ChannelRed, ChannelGreen, ChannelBlue, ChannelAlpha>>
    [] OTHER -> <<>>

\* the switch on the header's channel count; <<>> stands for the default
\* branch, which throws
CompositeChannels(nchannels) ==
  CASE nchannels = 1 -> <<ChannelAlpha>>
    [] nchannels = 2 -> <<ChannelTransparencyMask, ChannelRed>>
    [] nchannels = 3 -> <<ChannelRed, ChannelGreen, ChannelBlue>>
    [] nchannels = 4 -> <<ChannelRed, ChannelGreen, ChannelBlue, ChannelAlpha>>
    [] OTHER -> <<>>

\* ImageData img, filled from the header and the compression method
CompositeImageData(compressionMethod) ==
  [depth |-> m_header.depth, width |-> m_header.width,
   height |-> m_header.height, compressionMethod |-> compressionMethod,
   channels |-> CompositeChannels(m_header.nchannels)]

\* c has just read the compression method
ReadCompositeImage(c) ==
  IF CompositeChannels(m_header.nchannels) = <<>>
    THEN Throw(c)
    ELSE ReadImage(c, CompositeImageData(c.v))

\* onImageData(data): `data` got the compression method only, its width,
\* height and depth are not initialised and its channel list is empty
DeliverImageData(c) ==
  Emit(c, [type |-> "onImageData",
           data |-> [compressionMethod |-> c.l.compressionMethod,
                     width |-> Junk(c), height |-> Junk(c), depth |-> Junk(c),
                     channels |-> <<>>]])

ParseImageData(c) ==
  DeliverImageData(ReadCompositeImage(Let(Read16(c), "compressionMethod")))

readImageData ==
  /\ pc = "readImageData"
  /\ Continue(ParseImageData(Ctx), "returned")
  /\ UNCHANGED <<file, garbage, m_header>>

(***************************************************************************)
(* decode_psd                                                              *)
(***************************************************************************)
Next ==
  \/ readFileHeader
  \/ readColorModeData
  \/ readImageResources
  \/ readLayersAndMask
  \/ readImageData

(***************************************************************************)
(* The files decode_psd is run on: the byte layout the parsers read        *)
(***************************************************************************)
\* the greatest number of records in an image-resources section
MaxRes == 2

\* the greatest width and height of an image with pixel data
MaxImgDim == 2

\* the greatest number of layers in a layers-info block
MaxLayers == 2

\* the sequences of at most n elements of S
RECURSIVE SeqsUpTo(_, _)
SeqsUpTo(S, n) ==
  IF n = 0
    THEN {<<>>}
    ELSE LET shorter == SeqsUpTo(S, n - 1)
         IN shorter \cup {Append(q, x) : q \in {t \in shorter : Len(t) = n - 1},
                                         x \in S}

\* the concatenation of a sequence of byte sequences
RECURSIVE Concat(_)
Concat(seqs) == IF seqs = <<>> THEN <<>> ELSE Head(seqs) \o Concat(Tail(seqs))

\* n zero bytes
Zeros(n) == [i \in 1..n |-> 0]

\* the pad byte that makes an odd length even
EvenPad(bytes) == IF Len(bytes) % 2 = 1 THEN bytes \o <<0>> ELSE bytes

\* a length field that is 32 bits wide in a PSD and 64 bits in a PSB file
Len32or64(version, v) == IF version = VersionPsb THEN U64(v) ELSE U32(v)

\* a length field that is 16 bits wide in a PSD and 32 bits in a PSB file
Len16or32(version, v) == IF version = VersionPsb THEN U32(v) ELSE U16(v)

HeaderBytes(magic, version, nchannels, height, width, depth, colorMode) ==
  U32(magic) \o U16(version) \o <<0, 0, 0, 0, 0, 0>> \o U16(nchannels)
    \o U32(height) \o U32(width) \o U16(depth) \o U16(colorMode)

\* the number of bytes of the file header
HeaderSize == 26

ColorModeSection(payload) == U32(Len(payload)) \o payload

\* a Pascal string with its pad
PascalBytes(name, alignment) ==
  <<Len(name)>> \o name \o Zeros(PascalPad(Len(name), alignment))

\* one record of the image-resources section
ResourceRecord(magic, resID, name, data) ==
  U32(magic) \o U16(resID) \o PascalBytes(name, 2) \o U32(Len(data))
    \o EvenPad(data)

\* the section: `more` is what the declared length exceeds the records by
ResourcesSection(records, more) == U32(Len(records) + more) \o records

\* a tagged additional-layer-info block
TaggedBlock(version, signature, key, data) ==
  U32(signature) \o U32(key)
    \o (IF version = VersionPsb /\ key \in LongLengthKeys
          THEN U64(Len(data)) ELSE U32(Len(data)))
    \o EvenPad(data)

\* the data of one channel of a layer: the compression and the pixel bytes
ChannelData(compression, bytes) == U16(compression) \o bytes

\* a layer record for a layer of that rectangle; channels is a sequence of
\* [id, data], blocks the bytes of the tagged blocks of its extra data
LayerRecordBytes(version, top, left, bottom, right, channels, name, blocks) ==
  U32(top) \o U32(left) \o U32(bottom) \o U32(right) \o U16(Len(channels))
    \o Concat([i \in 1..Len(channels) |->
                 U16(channels[i].id) \o Len32or64(version, Len(channels[i].data))])
    \o U32(PSD_BLEND_MODE_MAGIC_NUMBER) \o U32(Key_norm)
    \o <<255, 0, 0, 0>>
    \o U32(8 + Len(PascalBytes(name, 4)) + Len(blocks))
    \o U32(0) \o U32(0) \o PascalBytes(name, 4) \o blocks

\* the body of a layers-info block: the count, the records and the channel
\* data of the layers; each layer is [record, data]
LayersInfoBytes(count, layers) ==
  EvenPad(U16(count)
            \o Concat([i \in 1..Len(layers) |-> layers[i].record])
            \o Concat([i \in 1..Len(layers) |-> layers[i].data]))

\* a global-mask-info block with its length field
GlobalMaskBytes(opacity, kind) ==
  U32(20) \o U16(0) \o Zeros(8) \o U16(opacity) \o <<kind>> \o Zeros(7)

\* the layers-and-mask section from its parts: the body of the layers info
\* (<<>> for none), the global mask info with its length field, and the
\* tagged blocks that follow
LayersSection(version, info, mask, tagged) ==
  Len32or64(version, Len(Len32or64(version, 0)) + Len(info) + Len(mask)
                       + Len(tagged))
    \o Len32or64(version, Len(info)) \o info \o mask \o tagged

\* a layers-and-mask section with an empty layers info and no global mask
EmptyLayersSection(version) == LayersSection(version, <<>>, U32(0), <<>>)

ImageDataSection(compression, bytes) == U16(compression) \o bytes

\* the sections after the header of a file without palette, resources,
\* layers and pixels (the composite is ZIP compressed, which is skipped)
EmptyBody(version) ==
  ColorModeSection(<<>>) \o ResourcesSection(<<>>, 0)
    \o EmptyLayersSection(version)
    \o ImageDataSection(ZIPWithoutPrediction, <<>>)

\* a header that readFileHeader accepts
ValidHeader(version, nchannels, height, width, depth, colorMode) ==
  HeaderBytes(PSD_FILE_MAGIC_NUMBER, version, nchannels, height, width, depth,
              colorMode)

\* n pixel bytes that differ from each other
Pixels(n) == [i \in 1..n |-> (37 * i + 11) % 256]

\* the raw pixel bytes of a composite image
RawBytes(nchannels, height, width, depth) ==
  Pixels(nchannels * height * RawRowReads(width, depth))

(***************************************************************************)
(* The families of files                                                   *)
(***************************************************************************)
Magics == {PSD_FILE_MAGIC_NUMBER, PSD_IMAGE_BLOCK_MAGIC_NUMBER}

Versions == {0, VersionPsd, VersionPsb, 3}

Sizes == {0, 1, PsdMaxSize, PsdMaxSize + 1, PsbMaxSize, PsbMaxSize + 1}

ChannelCounts == {0, 1, 2, 3, 4, 5, 56, 57}

Depths == {0, 1, 8, 16, 24, 32}

ColorModes == 0..10

\* headers that differ from a valid one in the magic and the version, in the
\* size, or in the channel count, the depth and the color mode
HeaderFiles ==
  {HeaderBytes(m, v, 3, 1, 1, 8, ColorModeRGB) \o EmptyBody(v) :
     m \in Magics, v \in Versions}
  \cup {ValidHeader(v[1], 3, v[2], v[3], 8, ColorModeRGB) \o EmptyBody(v[1]) :
        v \in {VersionPsd, VersionPsb} \X Sizes \X Sizes}
  \cup {ValidHeader(VersionPsd, v[1], 1, 1, v[2], v[3]) \o EmptyBody(VersionPsd) :
        v \in ChannelCounts \X Depths \X ColorModes}

\* byte k (0-based) of a palette: the three planes differ
PaletteByte(p, k) == (p * k + 85 * (k \div PaletteColors) + p) % 256

ColorPayloads ==
  {<<>>, <<7>>, <<1, 2, 3>>}
  \cup {[k \in 1..n |-> PaletteByte(p, k - 1)] :
        n \in {PaletteLength - 1, PaletteLength, PaletteLength + 1},
        p \in {1, 3}}

\* every valid color mode with every payload, and one resource
ColorModeFiles ==
  {ValidHeader(VersionPsd, 3, 1, 1, 8, cm) \o ColorModeSection(payload)
     \o ResourcesSection(
          ResourceRecord(PSD_IMAGE_BLOCK_MAGIC_NUMBER, 1005, <<97>>, <<9>>), 0)
     \o EmptyLayersSection(VersionPsd)
     \o ImageDataSection(RawImageData, RawBytes(3, 1, 1, 8)) :
   cm \in {c \in ColorModes : ValidColorMode(c)}, payload \in ColorPayloads}

\* records with and without name and payload, one with a wrong magic, and
\* records of the resources that may hold a descriptor: one of another
\* descriptor version, animation frames without the signature, and slices
\* of a version that is not read
ResourceRecords ==
  {ResourceRecord(PSD_IMAGE_BLOCK_MAGIC_NUMBER, 1000, <<>>, <<>>),
   ResourceRecord(PSD_IMAGE_BLOCK_MAGIC_NUMBER, 1005, <<97>>, <<9>>),
   ResourceRecord(PSD_IMAGE_BLOCK_MAGIC_NUMBER, 1006, <<97, 98>>, <<8, 7>>),
   ResourceRecord(PSD_FILE_MAGIC_NUMBER, 1000, <<>>, <<>>),
   ResourceRecord(PSD_IMAGE_BLOCK_MAGIC_NUMBER, 1065, <<>>,
                  U32(DescriptorVersion - 1)),
   ResourceRecord(PSD_IMAGE_BLOCK_MAGIC_NUMBER, ResIDAnimationFrames, <<>>,
                  Zeros(16)),
   ResourceRecord(PSD_IMAGE_BLOCK_MAGIC_NUMBER, ResIDSlices, <<>>, U32(5))}

\* sections of at most MaxRes records whose declared length is that of the
\* records or two bytes more
ResourceFiles ==
  {ValidHeader(VersionPsd, 3, 1, 1, 8, ColorModeRGB) \o ColorModeSection(<<>>)
     \o ResourcesSection(Concat(records), more)
     \o EmptyLayersSection(VersionPsd)
     \o ImageDataSection(RawImageData, RawBytes(3, 1, 1, 8)) :
   records \in SeqsUpTo(ResourceRecords, MaxRes), more \in {0, 2}}

\* a file whose image-resources section declares 8 bytes and holds a record
\* of 12 bytes, which a second record follows; the file ends there
OverlongRecordFiles ==
  {ValidHeader(VersionPsd, 3, 1, 1, 8, ColorModeRGB) \o ColorModeSection(<<>>)
     \o ResourcesSection(
          ResourceRecord(PSD_IMAGE_BLOCK_MAGIC_NUMBER, 1000, <<>>, <<>>)
            \o ResourceRecord(PSD_IMAGE_BLOCK_MAGIC_NUMBER, 0, <<>>, <<>>),
          -16)}

\* a key of four characters: the length 0 and the four bytes
KeyBytes(key) == U32(0) \o key

\* a key or a name of any other length: the length and the bytes
NameBytes(name) == U32(Len(name)) \o name

\* a unicode string: the number of characters and two bytes for each
UnicodeBytes(chars) ==
  U32(Len(chars)) \o Concat([i \in 1..Len(chars) |-> U16(chars[i])])

\* a key and the bytes of its value
PairBytes(key, value) == KeyBytes(key) \o value

\* a descriptor without a name, of the class "null", that holds these pairs
DescriptorBytes(pairs) ==
  UnicodeBytes(<<>>) \o KeyBytes(<<110, 117, 108, 108>>) \o U32(Len(pairs))
    \o Concat(pairs)

LongBytes(v) == U32(OSTypeKey.Long) \o U32(v)

DoubleBytes(v) == U32(OSTypeKey.Double) \o U64(v)

LargeIntegerBytes(v) == U32(OSTypeKey.LargeInteger) \o U64(v)

BooleanBytes(v) == U32(OSTypeKey.Boolean) \o <<v>>

StringBytes(chars) == U32(OSTypeKey.String) \o UnicodeBytes(chars)

ListBytes(values) ==
  U32(OSTypeKey.List) \o U32(Len(values)) \o Concat(values)

ObjectBytes(pairs) == U32(OSTypeKey.Descriptor) \o DescriptorBytes(pairs)

UnitFloatBytes(unit, v) == U32(OSTypeKey.UnitFloat) \o U32(unit) \o U64(v)

ReferenceBytes(items) ==
  U32(OSTypeKey.Reference) \o U32(Len(items)) \o Concat(items)

\* the keys of the pairs of the descriptors that follow: "Key1" and "Key2"
Key1 == <<75, 101, 121, 49>>

Key2 == <<75, 101, 121, 50>>

\* a code that is no OSType key, no reference type and no unit: "xxxx"
UnknownCode == DWORD(120, 120, 120, 120)

\* the items of a reference that parseReferenceType has a reader for
ReferenceItemBytes ==
  {U32(OSTypeKey.RefProperty) \o UnicodeBytes(<<80>>) \o KeyBytes(Key1)
     \o KeyBytes(Key2),
   U32(OSTypeKey.RefClass) \o UnicodeBytes(<<67>>) \o KeyBytes(Key1),
   U32(OSTypeKey.RefEnum) \o UnicodeBytes(<<>>) \o KeyBytes(Key1)
     \o KeyBytes(Key2) \o NameBytes(<<97, 98, 99, 100, 101>>),
   U32(OSTypeKey.RefOffset) \o UnicodeBytes(<<79>>) \o KeyBytes(Key1)
     \o U32(7)}

\* values of every type that parseOsTypeVariable has a reader for, with
\* every unit and every item of a reference
ValidValueBytes ==
  {LongBytes(1), DoubleBytes(2), LargeIntegerBytes(3), BooleanBytes(1),
   BooleanBytes(0), StringBytes(<<72, 105>>), ListBytes(<<>>),
   ListBytes(<<LongBytes(4), StringBytes(<<>>)>>),
   ObjectBytes(<<PairBytes(Key1, LongBytes(5))>>),
   U32(OSTypeKey.GlobalObject) \o DescriptorBytes(<<>>),
   U32(OSTypeKey.Enumerated) \o KeyBytes(Key1) \o KeyBytes(Key2),
   U32(OSTypeKey.ClassType) \o UnicodeBytes(<<67>>) \o KeyBytes(Key1),
   U32(OSTypeKey.GlobalClass) \o UnicodeBytes(<<>>) \o KeyBytes(Key2),
   U32(OSTypeKey.Alias) \o U32(3) \o <<1, 2, 3>>,
   ReferenceBytes(<<>>)}
    \cup {UnitFloatBytes(unit, 6) :
          unit \in {Unit.Angle, Unit.Density, Unit.Distance, Unit.None,
                    Unit.Percent, Unit.Pixel}}
    \cup {ReferenceBytes(<<item>>) : item \in ReferenceItemBytes}
    \cup {ReferenceBytes(<<first, last>>) :
          first \in ReferenceItemBytes, last \in ReferenceItemBytes}

\* values that hold a code for which there is no reader: raw data, a type
\* that is unknown, a reference type or a unit; a unit that is unknown or a
\* type; the reference items without reader, an unknown one and a type; and
\* each of these inside a list and inside a descriptor
BadCodeBytes ==
  {U32(code) \o U32(0) :
   code \in {OSTypeKey.RawData, UnknownCode, OSTypeKey.RefClass, Unit.Pixel}}
    \cup {UnitFloatBytes(unit, 6) : unit \in {UnknownCode, OSTypeKey.Long}}
    \cup {ReferenceBytes(<<U32(code) \o U32(0)>>) :
          code \in {OSTypeKey.RefIdentifier, OSTypeKey.RefIndex,
                    OSTypeKey.RefName, UnknownCode, OSTypeKey.Long}}

InvalidValueBytes ==
  BadCodeBytes
    \cup {ListBytes(<<LongBytes(4), bad>>) : bad \in BadCodeBytes}
    \cup {ObjectBytes(<<PairBytes(Key1, bad)>>) : bad \in BadCodeBytes}

\* a file whose image resources are a resource that has a descriptor, with
\* the descriptor version and the descriptor, and a resource of two bytes
DescriptorFile(descriptor) ==
  ValidHeader(VersionPsd, 3, 1, 1, 8, ColorModeRGB) \o ColorModeSection(<<>>)
    \o ResourcesSection(
         ResourceRecord(PSD_IMAGE_BLOCK_MAGIC_NUMBER, 1065, <<>>,
                        U32(DescriptorVersion) \o descriptor)
           \o ResourceRecord(PSD_IMAGE_BLOCK_MAGIC_NUMBER, 1006, <<>>, <<8, 7>>),
         0)
    \o EmptyLayersSection(VersionPsd)
    \o ImageDataSection(RawImageData, RawBytes(3, 1, 1, 8))

\* descriptors of two pairs, a long and a value of the set, in both orders
PairsWith(values) ==
  {DescriptorBytes(<<PairBytes(Key1, value), PairBytes(Key2, LongBytes(9))>>) :
   value \in values}
    \cup {DescriptorBytes(<<PairBytes(Key1, LongBytes(9)),
                            PairBytes(Key2, value)>>) : value \in values}

ValidCodeFiles == {DescriptorFile(d) : d \in PairsWith(ValidValueBytes)}

InvalidCodeFiles == {DescriptorFile(d) : d \in PairsWith(InvalidValueBytes)}

\* the long values of a key that is met twice
DuplicateLongs == {1, 2}

\* a descriptor that holds Key1 twice, and Key2 between the two
DuplicateKeyFile(first, last) ==
  DescriptorFile(DescriptorBytes(<<PairBytes(Key1, LongBytes(first)),
                                   PairBytes(Key2, LongBytes(9)),
                                   PairBytes(Key1, LongBytes(last))>>))

DuplicateKeyFiles ==
  {DuplicateKeyFile(first, last) : first, last \in DuplicateLongs}

\* a frame of the list FrIn, as a descriptor of FrDl, FrID and FrGA
FrameBytes(duration, id, ga) ==
  ObjectBytes(<<PairBytes(Key_FrDl, LongBytes(duration)),
                PairBytes(Key_FrID, LongBytes(id)),
                PairBytes(Key_FrGA, DoubleBytes(ga))>>)

\* the lists FrIn: no frame, one, two, two and a long between them, and a
\* frame that has an id only
FrameLists ==
  {<<>>, <<FrameBytes(100, 1, 5)>>,
   <<FrameBytes(100, 1, 5), FrameBytes(50, 2, 7)>>,
   <<FrameBytes(50, 2, 7), LongBytes(3), FrameBytes(100, 1, 5)>>,
   <<ObjectBytes(<<PairBytes(Key_FrID, LongBytes(4))>>)>>}

\* the lists FSts: no item, one with AFrm, two, one without AFrm, and one
\* that is a long
FrameStateLists ==
  {<<>>, <<ObjectBytes(<<PairBytes(Key_AFrm, LongBytes(1))>>)>>,
   <<ObjectBytes(<<PairBytes(Key_AFrm, LongBytes(1))>>),
     ObjectBytes(<<PairBytes(Key_AFrm, LongBytes(2))>>)>>,
   <<ObjectBytes(<<>>)>>, <<LongBytes(3)>>}

\* the descriptors of the animated data: FSts is a list, a long or not
\* there, and so is FrIn
AnimationDescriptors ==
  {DescriptorBytes(fsts \o frin) :
   fsts \in {<<>>, <<PairBytes(Key_FSts, LongBytes(1))>>}
              \cup {<<PairBytes(Key_FSts, ListBytes(l))>> : l \in FrameStateLists},
   frin \in {<<>>, <<PairBytes(Key_FrIn, LongBytes(1))>>}
              \cup {<<PairBytes(Key_FrIn, ListBytes(l))>> : l \in FrameLists}}

\* resource 4003: three unknown blocks, the signature, the key, the data
\* length, the descriptor version and the descriptor
AnimationResource(descVersion, descriptor) ==
  ResourceRecord(PSD_IMAGE_BLOCK_MAGIC_NUMBER, ResIDAnimationFrames, <<>>,
                 U32(1) \o U32(2) \o U32(3) \o U32(PSD_LAYER_INFO_MAGIC_NUMBER)
                   \o U32(Key_ANDS) \o U32(4 + Len(descriptor))
                   \o U32(descVersion) \o descriptor)

\* a file whose image resources are resource 4003 and a resource of two bytes
AnimationFile(descVersion, descriptor) ==
  ValidHeader(VersionPsd, 3, 1, 1, 8, ColorModeRGB) \o ColorModeSection(<<>>)
    \o ResourcesSection(
         AnimationResource(descVersion, descriptor)
           \o ResourceRecord(PSD_IMAGE_BLOCK_MAGIC_NUMBER, 1006, <<>>, <<8, 7>>),
         0)
    \o EmptyLayersSection(VersionPsd)
    \o ImageDataSection(RawImageData, RawBytes(3, 1, 1, 8))

AnimationFiles ==
  {AnimationFile(DescriptorVersion, d) : d \in AnimationDescriptors}
    \cup {AnimationFile(DescriptorVersion - 1, DescriptorBytes(<<>>))}

\* a luni block that holds the unicode name "B"
LuniBlock(version) ==
  TaggedBlock(version, PSD_LAYER_INFO_MAGIC_NUMBER2, Key_luni,
              UnicodeBytes(<<66>>))

\* the descriptor of an mlst item: the id of the layer and one layer state,
\* which is not enabled, with the frames 1 and 2
MlstDescriptor(layerID) ==
  DescriptorBytes(
    <<PairBytes(Key_LaID, LongBytes(layerID)),
      PairBytes(Key_LaSt,
                ListBytes(<<ObjectBytes(
                              <<PairBytes(Key_enab, BooleanBytes(0)),
                                PairBytes(Key_FrLs,
                                          ListBytes(<<LongBytes(1),
                                                      LongBytes(2)>>))>>)>>))>>)

\* a shmd block with one item, mlst, for the layer of that id
MlstBlock(version, layerID) ==
  TaggedBlock(version, PSD_LAYER_INFO_MAGIC_NUMBER, Key_shmd,
              U32(1) \o U32(PSD_LAYER_INFO_MAGIC_NUMBER) \o U32(Key_mlst)
                \o Zeros(4) \o U32(4 + Len(MlstDescriptor(layerID)))
                \o U32(DescriptorVersion) \o MlstDescriptor(layerID))

\* the descriptor of an mlst item with three layer states: one that is not
\* enabled with frame 1, one without an enab key with frame 2 and one that
\* is enabled with frame 3
MlstStatesDescriptor(layerID) ==
  DescriptorBytes(
    <<PairBytes(Key_LaID, LongBytes(layerID)),
      PairBytes(Key_LaSt,
                ListBytes(<<ObjectBytes(
                              <<PairBytes(Key_enab, BooleanBytes(0)),
                                PairBytes(Key_FrLs, ListBytes(<<LongBytes(1)>>))>>),
                            ObjectBytes(
                              <<PairBytes(Key_FrLs, ListBytes(<<LongBytes(2)>>))>>),
                            ObjectBytes(
                              <<PairBytes(Key_enab, BooleanBytes(1)),
                                PairBytes(Key_FrLs,
                                          ListBytes(<<LongBytes(3)>>))>>)>>))>>)

\* a shmd block with one item, mlst, that holds the three layer states
MlstStatesBlock(version, layerID) ==
  TaggedBlock(version, PSD_LAYER_INFO_MAGIC_NUMBER, Key_shmd,
              U32(1) \o U32(PSD_LAYER_INFO_MAGIC_NUMBER) \o U32(Key_mlst)
                \o Zeros(4) \o U32(4 + Len(MlstStatesDescriptor(layerID)))
                \o U32(DescriptorVersion) \o MlstStatesDescriptor(layerID))

\* the lists of tagged blocks in the extra data of a layer record: none, a
\* layer id, section dividers of the three lengths, one with a wrong
\* signature and one with a wrong sub type, a unicode name, a block
\* without data before a layer id, and the blocks that may hold a
\* descriptor with a version or a type for which none is parsed, and the
\* frames of a layer without a layer id block before them and with one, of
\* one layer state and of three
ExtraBlocks(version) ==
  {<<>>,
   TaggedBlock(version, PSD_LAYER_INFO_MAGIC_NUMBER, Key_lyid, U32(7)),
   TaggedBlock(version, PSD_LAYER_INFO_MAGIC_NUMBER, Key_lsct, U32(1)),
   TaggedBlock(version, PSD_LAYER_INFO_MAGIC_NUMBER, Key_lsct,
               U32(2) \o U32(PSD_LAYER_INFO_MAGIC_NUMBER) \o U32(Key_norm)),
   TaggedBlock(version, PSD_LAYER_INFO_MAGIC_NUMBER, Key_lsct,
               U32(3) \o U32(PSD_LAYER_INFO_MAGIC_NUMBER) \o U32(Key_norm)
                 \o U32(1)),
   TaggedBlock(version, PSD_LAYER_INFO_MAGIC_NUMBER, Key_lsct,
               U32(3) \o U32(PSD_LAYER_INFO_MAGIC_NUMBER) \o U32(Key_norm)
                 \o U32(2)),
   TaggedBlock(version, PSD_LAYER_INFO_MAGIC_NUMBER, Key_lsct,
               U32(2) \o U32(PSD_FILE_MAGIC_NUMBER) \o U32(Key_norm)),
   LuniBlock(version),
   TaggedBlock(version, PSD_LAYER_INFO_MAGIC_NUMBER, Key_lnsr, <<>>)
     \o TaggedBlock(version, PSD_LAYER_INFO_MAGIC_NUMBER, Key_lyid, U32(7)),
   TaggedBlock(version, PSD_LAYER_INFO_MAGIC_NUMBER, Key_cinf, U32(1)),
   TaggedBlock(version, PSD_LAYER_INFO_MAGIC_NUMBER, Key_SoLE,
               U32(Key_SoLd) \o U32(3)),
   TaggedBlock(version, PSD_LAYER_INFO_MAGIC_NUMBER, Key_anFX, U32(1)),
   TaggedBlock(version, PSD_LAYER_INFO_MAGIC_NUMBER, Key_shmd,
               U32(1) \o U32(PSD_LAYER_INFO_MAGIC_NUMBER) \o U32(Key_cust)
                 \o Zeros(4) \o U32(4) \o U32(1)),
   TaggedBlock(version, PSD_LAYER_INFO_MAGIC_NUMBER, Key_shmd,
               U32(1) \o U32(PSD_FILE_MAGIC_NUMBER)),
   MlstBlock(version, 9),
   TaggedBlock(version, PSD_LAYER_INFO_MAGIC_NUMBER, Key_lyid, U32(7))
     \o MlstBlock(version, 7),
   TaggedBlock(version, PSD_LAYER_INFO_MAGIC_NUMBER, Key_lyid, U32(7))
     \o MlstStatesBlock(version, 7)}

\* the channels of a layer of one pixel: one raw channel, one RLE channel,
\* or a raw transparency mask and a raw red channel
LayerChannels(version) ==
  {<<[id |-> 0, data |-> ChannelData(RawImageData, <<200>>)]>>,
   <<[id |-> 0, data |-> ChannelData(RLE, Len16or32(version, 2) \o <<0, 77>>)]>>,
   <<[id |-> 65535, data |-> ChannelData(RawImageData, <<100>>)],
     [id |-> 0, data |-> ChannelData(RawImageData, <<200>>)]>>}

\* the channels of the layer of the files that have one kind of layer only
TwoChannels(version) == CHOOSE ch \in LayerChannels(version) : Len(ch) = 2

\* layer number i, of one pixel, with its record and its channel data
OneLayer(version, i, channels, blocks) ==
  [record |-> LayerRecordBytes(version, 0, 0, 1, 1, channels, <<76, 48 + i>>,
                               blocks),
   data |-> Concat([k \in 1..Len(channels) |-> channels[k].data])]

\* a file with the layers-and-mask section made of these parts
LayersFile(version, info, mask, tagged) ==
  ValidHeader(version, 3, 1, 1, 8, ColorModeRGB) \o ColorModeSection(<<>>)
    \o ResourcesSection(<<>>, 0) \o LayersSection(version, info, mask, tagged)
    \o ImageDataSection(RawImageData, RawBytes(3, 1, 1, 8))

\* the int16 layer count n and its negative
LayerCounts(n) == {n, 65536 - n}

\* a channel whose declared length is 0 and that has no data
NoDataChannel == <<[id |-> 0, data |-> <<>>]>>

\* layer records laid out as in a PSD file, with channel lengths of 4
\* bytes, behind the section and layers-info length fields of either version
PsdLayoutFiles ==
  {LayersFile(version,
              LayersInfoBytes(n, [i \in 1..n |->
                                    OneLayer(VersionPsd, i, NoDataChannel, <<>>)]),
              U32(0), <<>>) :
   version \in {VersionPsd, VersionPsb}, n \in 1..MaxLayers}

\* files of 1 .. MaxLayers layers that have the same channels and blocks
LayerFiles ==
  UNION {{LayersFile(version,
                     LayersInfoBytes(count,
                                     [i \in 1..n |->
                                        OneLayer(version, i, channels, blocks)]),
                     U32(0), <<>>) :
          channels \in LayerChannels(version), blocks \in ExtraBlocks(version),
          count \in LayerCounts(n)} :
         version \in {VersionPsd, VersionPsb}, n \in 1..MaxLayers}

\* the files of LayerFiles whose layers have a luni block
LuniFiles ==
  UNION {{LayersFile(version,
                     LayersInfoBytes(n, [i \in 1..n |->
                                           OneLayer(version, i, channels,
                                                    LuniBlock(version))]),
                     U32(0), <<>>) :
          channels \in LayerChannels(version)} :
         version \in {VersionPsd, VersionPsb}, n \in 1..MaxLayers}

MaskOpacities == {0, 1, 50, MaxMaskOpacity, MaxMaskOpacity + 1}

MaskKinds == {0, 1, 2, 128, 255}

\* files without layers whose global mask has every opacity and kind
MaskFiles ==
  {LayersFile(version, <<>>, GlobalMaskBytes(opacity, kind), <<>>) :
   version \in {VersionPsd, VersionPsb}, opacity \in MaskOpacities,
   kind \in MaskKinds}

\* the tagged blocks after the global mask info: a block of a key without
\* parser, a layer id, a block without data, and a nested layers info
TaggedLists(version) ==
  {TaggedBlock(version, PSD_LAYER_INFO_MAGIC_NUMBER, Key_Patt, <<1, 2>>),
   TaggedBlock(version, PSD_LAYER_INFO_MAGIC_NUMBER, Key_lyid, U32(9)),
   TaggedBlock(version, PSD_LAYER_INFO_MAGIC_NUMBER, Key_Patt, <<>>)
     \o TaggedBlock(version, PSD_LAYER_INFO_MAGIC_NUMBER, Key_lyid, U32(9)),
   TaggedBlock(version, PSD_LAYER_INFO_MAGIC_NUMBER2, Key_Lr16,
               LayersInfoBytes(1, <<OneLayer(version, 1, TwoChannels(version),
                                             <<>>)>>))}

TaggedFiles ==
  UNION {{LayersFile(version, <<>>, mask, tagged) :
          mask \in {U32(0), GlobalMaskBytes(MaxMaskOpacity, 0)},
          tagged \in TaggedLists(version)} :
         version \in {VersionPsd, VersionPsb}}

\* a composite image of raw pixels of every channel count, size and depth
RawFiles ==
  {ValidHeader(VersionPsd, v[1], v[2], v[3], v[4], ColorModeRGB)
     \o ColorModeSection(<<>>) \o ResourcesSection(<<>>, 0)
     \o EmptyLayersSection(VersionPsd)
     \o ImageDataSection(RawImageData, RawBytes(v[1], v[2], v[3], v[4])) :
   v \in (1..4) \X (1..MaxImgDim) \X (1..MaxImgDim) \X {1, 8, 16, 32}}

\* the other compression methods, and a method that is none
CompressionFiles ==
  {ValidHeader(VersionPsd, 3, 1, 1, 8, ColorModeRGB)
     \o ColorModeSection(<<>>) \o ResourcesSection(<<>>, 0)
     \o EmptyLayersSection(VersionPsd)
     \o ImageDataSection(compression, RawBytes(3, 1, 1, 8)) :
   compression \in {ZIPWithoutPrediction, ZIPWithPrediction, 4}}

\* the PackBits encodings of one row: two literals, one literal, a run of
\* two, three literals, a no-op and a run of three, and nothing
RowEncodings ==
  {<<1, 10, 20>>, <<0, 30>>, <<255, 40>>, <<2, 50, 60, 70>>, <<128, 254, 80>>,
   <<>>}

\* the image data of RLE rows: the byte counts of the rows, then the rows
RleImage(version, rows) ==
  Concat([y \in 1..Len(rows) |-> Len16or32(version, Len(rows[y]))])
    \o Concat(rows)

RleFile(version, nchannels, width, rows) ==
  ValidHeader(version, nchannels, Len(rows) \div nchannels, width, 8,
              ColorModeRGB)
    \o ColorModeSection(<<>>) \o ResourcesSection(<<>>, 0)
    \o EmptyLayersSection(version)
    \o ImageDataSection(RLE, RleImage(version, rows))

\* the width of the image whose row is one literal run of the greatest length
WideImage == 128

\* one-channel images of every size and every encoding of the rows, a
\* two-channel image, and an image as wide as the longest literal run
RleFiles ==
  {RleFile(version, 1, width, rows) :
   version \in {VersionPsd, VersionPsb}, width \in 1..MaxImgDim,
   rows \in SeqsUpTo(RowEncodings, MaxImgDim) \ {<<>>}}
  \cup {RleFile(VersionPsd, 2, 2, <<r, <<1, 10, 20>>>>) : r \in RowEncodings}
  \cup {RleFile(VersionPsd, 1, WideImage,
                <<<<WideImage - 1>> \o Pixels(WideImage)>>)}

\* PSB files that end k bytes into the 8-byte length of the layers-and-mask
\* section
ShortLengthFiles ==
  {ValidHeader(VersionPsb, 3, 1, 1, 8, ColorModeRGB) \o ColorModeSection(<<>>)
     \o ResourcesSection(<<>>, 0) \o Zeros(k) : k \in 0..7}

\* a file whose layers-and-mask section declares the length 0 and is its
\* length field alone, before a raw composite image of one channel and of
\* 2 x 2 pixels
NoLayersFile(pixels) ==
  ValidHeader(VersionPsd, 1, 2, 2, 8, ColorModeRGB) \o ColorModeSection(<<>>)
    \o ResourcesSection(<<>>, 0) \o Len32or64(VersionPsd, 0)
    \o ImageDataSection(RawImageData, pixels)

NoLayersFiles == {NoLayersFile(pixels) : pixels \in [1..4 -> {0, 1}]}

\* every prefix of a file
Prefixes(f) == {SubSeq(f, 1, n) : n \in 0..Len(f)}

\* files cut short at every byte: one with a resource, a global mask and
\* raw pixels, one with a layer, and one with RLE pixels
TruncatedFiles ==
  Prefixes(ValidHeader(VersionPsd, 3, 1, 1, 8, ColorModeRGB)
             \o ColorModeSection(<<>>)
             \o ResourcesSection(
                  ResourceRecord(PSD_IMAGE_BLOCK_MAGIC_NUMBER, 1005, <<97>>,
                                 <<9>>), 0)
             \o LayersSection(VersionPsd, <<>>,
                              GlobalMaskBytes(MaxMaskOpacity, 0), <<>>)
             \o ImageDataSection(RawImageData, RawBytes(3, 1, 1, 8)))
  \cup Prefixes(LayersFile(VersionPsd,
                           LayersInfoBytes(1, <<OneLayer(VersionPsd, 1,
                                                         TwoChannels(VersionPsd),
                                                         <<>>)>>),
                           U32(0), <<>>))
  \cup Prefixes(RleFile(VersionPsd, 1, 2, <<<<1, 10, 20>>, <<255, 40>>>>))

Files ==
  HeaderFiles \cup ColorModeFiles \cup ResourceFiles \cup LayerFiles
    \cup MaskFiles \cup TaggedFiles \cup RawFiles \cup CompressionFiles
    \cup RleFiles \cup TruncatedFiles \cup PsdLayoutFiles
    \cup ValidCodeFiles \cup InvalidCodeFiles \cup DuplicateKeyFiles
    \cup AnimationFiles \cup ShortLengthFiles \cup NoLayersFiles
    \cup OverlongRecordFiles

\* what the memory holds that no initialiser has written: the stack where
\* read64 puts its buffer, and the integers of new objects
GarbageBuffers == {<<0, 0, 0, 0, 0, 0, 0, 0>>, <<0, 0, 0, 0, 0, 0, 0, 9>>}

Init ==
  /\ file \in Files
  /\ garbage \in GarbageBuffers
  /\ pos = 0
  /\ m_ok = TRUE
  /\ m_header = [version |-> garbage[8], nchannels |-> garbage[8],
                 width |-> garbage[8], height |-> garbage[8],
                 depth |-> garbage[8], colorMode |-> garbage[8]]
  /\ events = <<>>
  /\ pc = "readFileHeader"
  /\ result = "none"

Spec == Init /\ [][Next]_vars

(***************************************************************************)
(* What the file says, read off its bytes                                  *)
(***************************************************************************)
\* the big-endian value of the n bytes of the file from offset p on
RECURSIVE FileValue(_, _)
FileValue(p, n) == IF n = 0 THEN 0 ELSE FileValue(p, n - 1) * 256 + file[p + n]

\* the file holds a whole header
HasHeader == Len(file) >= HeaderSize

FileMagic == FileValue(0, 4)

FileVersion == FileValue(4, 2)

FileChannels == FileValue(12, 2)

FileHeight == FileValue(14, 4)

FileWidth == FileValue(18, 4)

FileDepth == FileValue(22, 2)

FileColorMode == FileValue(24, 2)

\* the positions of the events of that type
Indices(type) == {i \in DOMAIN events : events[i].type = type}

\* decode has run through readFileHeader
HeaderRead == pc # "readFileHeader"

(***************************************************************************)
(* C1                                                                      *)
(***************************************************************************)
\* the place of a section event in the order of the sections, 0 for the
\* events that are not section events
SectionRank(type) ==
  CASE type = "onFileHeader" -> 1
    [] type = "onColorModeData" -> 2
    [] type = "onImageResource" -> 3
    [] type = "onLayersAndMask" -> 4
    [] type = "onImageData" -> 5
    [] OTHER -> 0

\* C1: when decode has returned true, the delegate has received
\* onFileHeader exactly once and as its first event, onColorModeData at most
\* once, onLayersAndMask exactly once and onImageData exactly once, and the
\* section events came in the order header, color mode, image resources,
\* layers and mask, image data.
C1_SectionEventsOnceAndInOrder ==
  result = "true" =>
    /\ Indices("onFileHeader") = {1}
    /\ Cardinality(Indices("onColorModeData")) <= 1
    /\ Cardinality(Indices("onLayersAndMask")) = 1
    /\ Cardinality(Indices("onImageData")) = 1
    /\ \A i, j \in DOMAIN events :
         (/\ i < j
          /\ SectionRank(events[i].type) > 0
          /\ SectionRank(events[j].type) > 0)
           => SectionRank(events[i].type) <= SectionRank(events[j].type)

\* a successful run that delivered color mode data and a resource
C1_Witness ==
  /\ result = "true"
  /\ Indices("onColorModeData") # {}
  /\ Indices("onImageResource") # {}

(***************************************************************************)
(* C2                                                                      *)
(***************************************************************************)
\* the header of the file breaks one of the rules of the claim
HeaderViolation ==
  \/ FileMagic # 943870035
  \/ FileVersion \notin {1, 2}
  \/ FileDepth \notin {1, 8, 16, 32}
  \/ FileColorMode \notin {0, 1, 2, 3, 4, 7, 8, 9}
  \/ (FileVersion = 1 /\ (FileWidth > 30000 \/ FileHeight > 30000))
  \/ (FileVersion = 2 /\ (FileWidth > 300000 \/ FileHeight > 300000))

\* C2: a header with a wrong magic, version, depth or color mode or with a
\* width or height above the ceiling of its version makes decode return
\* false without any delegate event; every other header, so one whose width
\* and height are exactly the ceiling, is accepted and delivered.
C2_HeaderRejectedIffInvalid ==
  (HasHeader /\ HeaderRead) =>
    IF HeaderViolation
      THEN pc = "returned" /\ result = "false" /\ events = <<>>
      ELSE events # <<>> /\ events[1].type = "onFileHeader"

\* a PSB header one over the ceiling has been rejected
C2_Witness ==
  /\ HasHeader
  /\ FileMagic = 943870035
  /\ FileVersion = 2
  /\ FileWidth = 300001
  /\ FileHeight = 300000
  /\ result = "false"

(***************************************************************************)
(* C3                                                                      *)
(***************************************************************************)
\* C3: every header that is delivered through onFileHeader has a width and
\* a height above 0, a depth of 1, 8, 16 or 32, a color mode of the list
\* and between 1 and 56 channels.
C3_DeliveredHeaderValid ==
  \A i \in Indices("onFileHeader") :
    /\ events[i].header.width > 0
    /\ events[i].header.height > 0
    /\ events[i].header.depth \in {1, 8, 16, 32}
    /\ events[i].header.colorMode \in {0, 1, 2, 3, 4, 7, 8, 9}
    /\ events[i].header.nchannels >= 1
    /\ events[i].header.nchannels <= 56

(***************************************************************************)
(* C4                                                                      *)
(***************************************************************************)
\* C4: decode does not return true when the byte source has signalled
\* not-ok, that is when a read of the decoder has met the end of the file.
C4_NoSuccessAfterEndOfFile == ~(result = "true" /\ ~m_ok)

(***************************************************************************)
(* C5                                                                      *)
(***************************************************************************)
\* where the image-resources section begins: after the color mode data
ResourcesPos == HeaderSize + 4 + FileValue(HeaderSize, 4)

\* from offset p on, with that many declared bytes of the section left, a
\* record is met that does not begin with '8BIM'
RECURSIVE BadFramingFrom(_, _)
BadFramingFrom(p, remaining) ==
  IF remaining <= 0
    THEN FALSE
  ELSE IF FileValue(p, 4) # 943868237
    THEN TRUE
  ELSE LET nameSize == 2 * ((file[p + 7] + 2) \div 2)
           dataLength == FileValue(p + 6 + nameSize, 4)
           size == 6 + nameSize + 4 + dataLength + (dataLength % 2)
       IN BadFramingFrom(p + size, remaining - size)

\* the image-resources section of the file is badly framed
BadFraming == BadFramingFrom(ResourcesPos + 4, FileValue(ResourcesPos, 4))

\* C5: decode does not return true for a file, read without meeting its
\* end, in whose image-resources section a record does not begin with
\* '8BIM' while declared bytes of the section remain.
C5_BadFramingFails == ~(result = "true" /\ m_ok /\ BadFraming)

(***************************************************************************)
(* C6                                                                      *)
(***************************************************************************)
\* C6: when decode succeeds the color mode data length is above 0 exactly
\* when the color mode is Indexed or Duotone, and no onColorModeData event
\* is delivered for another color mode.
C6_ColorDataIffIndexedOrDuotone ==
  /\ (result = "true" /\ m_ok) =>
       ((FileValue(HeaderSize, 4) > 0) <=> (FileColorMode \in {2, 8}))
  /\ Indices("onColorModeData") # {} => FileColorMode \in {2, 8}

(***************************************************************************)
(* C7                                                                      *)
(***************************************************************************)
\* the file has an accepted header of color mode Indexed and all the bytes
\* of the color mode data it declares, and readColorModeData has run
IndexedRead ==
  /\ HasHeader
  /\ events # <<>>
  /\ FileColorMode = 2
  /\ pc \notin {"readFileHeader", "readColorModeData"}
  /\ Len(file) >= HeaderSize + 4
  /\ Len(file) >= HeaderSize + 4 + FileValue(HeaderSize, 4)

\* byte k of the payload of the color mode data
PaletteFileByte(k) == file[HeaderSize + 4 + k + 1]

\* C7: for an Indexed file a color mode data length of 768 delivers 256
\* palette entries, entry i with r = byte i, g = byte 256+i and b = byte
\* 512+i of the payload, and every other length is fatal.
C7_IndexedPalettePlanar ==
  IndexedRead =>
    IF FileValue(HeaderSize, 4) = 768
      THEN /\ Cardinality(Indices("onColorModeData")) = 1
           /\ \A i \in Indices("onColorModeData") :
                /\ Len(events[i].colors) = 256
                /\ \A k \in 0..255 :
                     events[i].colors[k + 1] =
                       [r |-> PaletteFileByte(k), g |-> PaletteFileByte(256 + k),
                        b |-> PaletteFileByte(512 + k)]
      ELSE /\ pc = "returned"
           /\ result = "false"
           /\ Indices("onColorModeData") = {}

\* a palette of 256 entries has been delivered whose planes differ
C7_Witness ==
  /\ IndexedRead
  /\ \E i \in Indices("onColorModeData") :
       /\ Len(events[i].colors) = 256
       /\ events[i].colors[2].r # events[i].colors[2].g
       /\ events[i].colors[2].g # events[i].colors[2].b

(***************************************************************************)
(* C8                                                                      *)
(***************************************************************************)
\* the PackBits decoding of a byte sequence
RECURSIVE PackBits(_)
PackBits(bytes) ==
  IF bytes = <<>>
    THEN <<>>
  ELSE IF bytes[1] = 128
    THEN PackBits(Tail(bytes))
  ELSE IF bytes[1] < 128
    THEN SubSeq(bytes, 2, Min(Len(bytes), bytes[1] + 2))
           \o PackBits(SubSeq(bytes, bytes[1] + 3, Len(bytes)))
  ELSE IF Len(bytes) < 2
    THEN <<>>
  ELSE [i \in 1..(257 - bytes[1]) |-> bytes[2]]
         \o PackBits(SubSeq(bytes, 3, Len(bytes)))

\* a decoded row cut to, or filled with zeros up to, size bytes
Fit(decoded, size) ==
  [i \in 1..size |-> IF i <= Len(decoded) THEN decoded[i] ELSE 0]

\* the composite image data begins at the position of the byte source: the
\* width of a byte count, the number of rows and the byte count of row k
ByteCountWidth == IF m_header.version = 2 THEN 4 ELSE 2

CompositeRows == m_header.height * m_header.nchannels

RowByteCount(k) == FileValue(pos + 2 + k * ByteCountWidth, ByteCountWidth)

\* where row k begins
RECURSIVE RowStart(_)
RowStart(k) ==
  IF k = 0
    THEN pos + 2 + CompositeRows * ByteCountWidth
    ELSE RowStart(k - 1) + RowByteCount(k - 1)

\* the bytes of row k
RowBytes(k) == SubSeq(file, RowStart(k) + 1, RowStart(k) + RowByteCount(k))

\* the file holds a composite image of depth 8 and compression RLE with
\* all its rows
RleComposite ==
  /\ pc = "readImageData"
  /\ m_header.depth = 8
  /\ m_header.nchannels \in 1..4
  /\ Len(file) >= pos + 2
  /\ FileValue(pos, 2) = 1
  /\ Len(file) >= pos + 2 + CompositeRows * ByteCountWidth
  /\ Len(file) >= RowStart(CompositeRows)

IsScanline(e) == e.type = "onImageScanline"

\* C8: every scanline of a composite image of depth 8 and compression RLE
\* is the PackBits decoding of the bytes of its row, cut or zero-filled to
\* the scanline buffer, and all scanlines of the image are of one length.
C8_ScanlineIsPackBitsOfItsRow ==
  [][(RleComposite /\ readImageData) =>
       LET lines == SelectSeq(SubSeq(events', Len(events) + 1, Len(events')),
                              IsScanline)
       IN \A k \in DOMAIN lines :
            /\ Len(lines[k].data) = Len(lines[1].data)
            /\ lines[k].data = Fit(PackBits(RowBytes(k - 1)), Len(lines[k].data))]_vars

(***************************************************************************)
(* C9                                                                      *)
(***************************************************************************)
\* C9: readImageData begins a composite image whose channel list is [Alpha]
\* for 1 channel, [TransparencyMask, Red] for 2, [Red, Green, Blue] for 3
\* and [Red, Green, Blue, Alpha] for 4; for every other channel count it
\* delivers no event at all and decode returns false.
C9_CompositeChannelsOfCount ==
  [][readImageData =>
       LET new == SubSeq(events', Len(events) + 1, Len(events'))
           n == m_header.nchannels
       IN IF n \in 1..4
            THEN /\ new # <<>>
                 /\ new[1].type = "onBeginImage"
                 /\ new[1].img.channels =
                      (CASE n = 1 -> <<3>>
                         [] n = 2 -> <<-1, 0>>
                         [] n = 3 -> <<0, 1, 2>>
                         [] n = 4 -> <<0, 1, 2, 3>>)
            ELSE new = <<>> /\ result' = "false"]_vars

\* a composite image of two channels has been begun after the layers
C9_Witness ==
  /\ m_header.nchannels = 2
  /\ \E i \in Indices("onBeginImage"), j \in Indices("onLayersAndMask") :
       j < i /\ Len(events[i].img.channels) = 2

(***************************************************************************)
(* C10                                                                     *)
(***************************************************************************)
\* C10: a global mask info of a length other than 0 that readLayersAndMask
\* comes to is accepted, and its opacity and kind stored as they are, when
\* the opacity is at most 100 and the kind 0, 1 or 128, and makes
\* readGlobalMaskInfo throw otherwise.
C10_MaskAcceptedIffValid ==
  (pc = "readLayersAndMask" /\ Live(LayersAndMaskInfo(Ctx))
     /\ Len(file) >= LayersAndMaskInfo(Ctx).pos + 17
     /\ FileValue(LayersAndMaskInfo(Ctx).pos, 4) # 0) =>
    LET at == LayersAndMaskInfo(Ctx).pos
        opacity == FileValue(at + 14, 2)
        kind == FileValue(at + 16, 1)
        read == ReadGlobalMaskInfo(LayersAndMaskInfo(Ctx))
    IN IF opacity <= 100 /\ kind \in {0, 1, 128}
         THEN Live(read) /\ read.v = [opacity |-> opacity, kind |-> kind]
         ELSE read.thrown

(***************************************************************************)
(* C11                                                                     *)
(***************************************************************************)
\* the layers-and-mask section begins at the position of the byte source:
\* the context in which readLayersAndMask calls readLayersInfo(layers)
LayersInfoCtx == LetTell(Let(Read32or64Length(Ctx), "length"), "beg")

\* the width of the two length fields before the layer count
LengthWidth == IF m_header.version = 2 THEN 8 ELSE 4

\* the section holds a layers info, with its layer count, that is not empty
HasLayersInfo ==
  /\ pc = "readLayersAndMask"
  /\ Len(file) >= pos + 2 * LengthWidth + 2
  /\ FileValue(pos + LengthWidth + LengthWidth - 4, 4) # 0

\* the layer count as the int16 it is read as
FileLayerCount ==
  IF FileValue(pos + 2 * LengthWidth, 2) >= 32768
    THEN FileValue(pos + 2 * LengthWidth, 2) - 65536
    ELSE FileValue(pos + 2 * LengthWidth, 2)

\* the number of events of a type among those from index n + 1 on
NewEvents(ev, n, type) ==
  Cardinality({i \in (n + 1)..Len(ev) : ev[i].type = type})

\* the number of channels of the layers taken together
RECURSIVE ChannelTotal(_)
ChannelTotal(layers) ==
  IF layers = <<>>
    THEN 0
    ELSE Len(Head(layers).channels) + ChannelTotal(Tail(layers))

\* C11: a layers info with a negative layer count that readLayersInfo gets
\* through has as many layer records as the absolute value of the count,
\* and the images begun in it are one for each channel of each layer.
C11_NegativeCountIsAbsolute ==
  (HasLayersInfo /\ FileLayerCount < 0 /\ Live(ReadLayersInfo(LayersInfoCtx))) =>
    /\ Len(ReadLayersInfo(LayersInfoCtx).v) = -FileLayerCount
    /\ NewEvents(ReadLayersInfo(LayersInfoCtx).ev, Len(events), "onBeginImage")
         = ChannelTotal(ReadLayersInfo(LayersInfoCtx).v)

\* two layers of two channels have been read under the count -2
C11_Witness ==
  /\ HasLayersInfo
  /\ FileLayerCount = -2
  /\ Live(ReadLayersInfo(LayersInfoCtx))
  /\ Len(ReadLayersInfo(LayersInfoCtx).v) = 2
  /\ ChannelTotal(ReadLayersInfo(LayersInfoCtx).v) = 4

(***************************************************************************)
(* C12                                                                     *)
(***************************************************************************)
\* the Pascal name of the layer record whose blend mode signature is at
\* offset q
RecordName(q) ==
  SubSeq(file, q + 26 + FileValue(q + 16, 4) + FileValue(q + 20 + FileValue(q + 16, 4), 4),
         q + 25 + FileValue(q + 16, 4) + FileValue(q + 20 + FileValue(q + 16, 4), 4)
           + file[q + 25 + FileValue(q + 16, 4) + FileValue(q + 20 + FileValue(q + 16, 4), 4)])

\* the names of the n layer records laid out from offset p on, whose channel
\* lengths are w bytes wide
RECURSIVE NamesFrom(_, _, _)
NamesFrom(p, n, w) ==
  IF n = 0
    THEN <<>>
    ELSE <<RecordName(p + 18 + FileValue(p + 16, 2) * (2 + w))>>
           \o NamesFrom(p + 18 + FileValue(p + 16, 2) * (2 + w) + 16
                          + FileValue(p + 18 + FileValue(p + 16, 2) * (2 + w) + 12, 4),
                        n - 1, w)

\* the names of the layers of the file, read with channel lengths of w bytes
FileLayerNames(w) ==
  NamesFrom(pos + 2 * LengthWidth + 2,
            IF FileLayerCount < 0 THEN -FileLayerCount ELSE FileLayerCount, w)

\* the names of the layers of an onLayersAndMask event
DeliveredNames(ev) == [i \in DOMAIN ev.layers.layers |-> ev.layers.layers[i].name]

\* the events that this step of decode has delivered
NewEventsOf(type) ==
  SelectSeq(SubSeq(events', Len(events) + 1, Len(events')),
            LAMBDA e : e.type = type)

\* C12 as stated: the layer records of a PSD file, decoded behind the 8-byte
\* length fields of a PSB file, are delivered in onLayersAndMask in the same
\* number, with the same names in the same order.
C12_SameBytesSameLayers ==
  [][(readLayersAndMask /\ file \in PsdLayoutFiles) =>
       /\ Len(NewEventsOf("onLayersAndMask")) = 1
       /\ DeliveredNames(NewEventsOf("onLayersAndMask")[1]) = FileLayerNames(4)]_vars

\* C12: a PSD file and a PSB file whose layer records have channel lengths
\* of 4 and of 8 bytes deliver the same layers: in both, the layers of
\* onLayersAndMask are the layer records of the file, with their Pascal
\* names in file order.
C12_LayerNamesAsInFile ==
  [][(readLayersAndMask /\ HasLayersInfo /\ m_ok'
        /\ NewEventsOf("onLayersAndMask") # <<>>) =>
       /\ Len(NewEventsOf("onLayersAndMask")) = 1
       /\ DeliveredNames(NewEventsOf("onLayersAndMask")[1])
            = FileLayerNames(LengthWidth)]_vars

\* two layers of a PSB file have been delivered under their names
C12_Witness ==
  /\ m_header.version = VersionPsb
  /\ \E i \in Indices("onLayersAndMask") :
       /\ Len(events[i].layers.layers) = 2
       /\ events[i].layers.layers[1].name = <<76, 49>>
       /\ events[i].layers.layers[2].name = <<76, 50>>

(***************************************************************************)
(* C13                                                                     *)
(***************************************************************************)
\* the file is one of those whose first resource holds a descriptor, and
\* decode is about to read the image resources
AtDescriptorFile(files) == pc = "readImageResources" /\ file \in files

\* the descriptor of the first resource begins after the section length,
\* the magic, the id, the name, the resource length and the version
DescriptorPos == pos + 20

\* and ends where the resource does
DescriptorEnd == pos + 16 + FileValue(pos + 12, 4)

\* parseDescriptor() at the descriptor of the first resource
ParsedDescriptor == ParseDescriptor(Seek(Ctx, DescriptorPos))

\* C13: when a descriptor holds the same key twice, DescriptorMap::find and
\* getValue return the value that is last on disk, and parseDescriptor has
\* consumed the values of both occurrences.
C13_LastOccurrenceWins ==
  \A first \in DuplicateLongs, last \in DuplicateLongs :
    (AtDescriptorFile({DuplicateKeyFile(first, last)})) =>
      /\ Live(ParsedDescriptor)
      /\ ParsedDescriptor.pos = DescriptorEnd
      /\ Find(ParsedDescriptor.v.descriptor, Key1)
           = [type |-> OSTypeKey.Long, value |-> last]
      /\ GetValue(ParsedDescriptor.v.descriptor, Key1, OSTypeKey.Long)
           = [type |-> OSTypeKey.Long, value |-> last]

(***************************************************************************)
(* C14                                                                     *)
(***************************************************************************)
\* C14: a descriptor that holds, at the top or inside a list or a
\* descriptor, a type code that is none of the 15 OSType codes, a reference
\* item whose code is none of the 7 reference codes, a unit that is none of
\* the 6 units, a reference item RefIdentifier, RefIndex or RefName, or raw
\* data, makes parseDescriptor throw: no descriptor is returned, no
\* resource is delivered and decode returns false.
C14_UnknownCodesAreFatal ==
  /\ AtDescriptorFile(InvalidCodeFiles) =>
       (ParsedDescriptor.thrown /\ ParsedDescriptor.v = 0)
  /\ (file \in InvalidCodeFiles /\ pc \notin {"readFileHeader",
                                              "readColorModeData",
                                              "readImageResources"}) =>
       /\ pc = "returned"
       /\ result = "false"
       /\ Indices("onImageResource") = {}

\* decode has returned false for a descriptor whose second pair holds a
\* list with raw data in it
C14_Witness ==
  /\ file = DescriptorFile(
              DescriptorBytes(
                <<PairBytes(Key1, LongBytes(9)),
                  PairBytes(Key2, ListBytes(<<LongBytes(4),
                                              U32(OSTypeKey.RawData) \o U32(0)>>))>>))
  /\ pc = "returned"
  /\ result = "false"
  /\ Indices("onImageResource") = {}

(***************************************************************************)
(* C15                                                                     *)
(***************************************************************************)
\* the descriptor of resource 4003, when it is the first resource, begins
\* after the section length, the magic, the id, the name, the resource
\* length, the three unknown blocks, the signature, the key, the data
\* length and the version
AnimationDescriptor == ParseDescriptor(Seek(Ctx, pos + 44)).v.descriptor

\* the list FrIn and the list FSts of that descriptor
FrIn == GetValue(AnimationDescriptor, Key_FrIn, OSTypeKey.List)

FSts == GetValue(AnimationDescriptor, Key_FSts, OSTypeKey.List)

\* the items of FrIn that are descriptors, in list order
FrInDescriptors ==
  SelectSeq(FrIn.values, LAMBDA item : item.type = OSTypeKey.Descriptor)

\* a double whose 8 bytes, read as an integer, are bits < 2^52 is the
\* subnormal bits * 2^-1074: it is the number n only when both are 0
DoubleOfBitsIs(bits, n) == bits = 0 /\ n = 0

\* the delivered number is the value that the item holds under the key: the
\* double that the 8 bytes of a value of type Double encode, the integer of
\* a long or a large integer, and 0 when there is no such value
Carries(n, item, key) ==
  IF Find(item.descriptor, key).type = OSTypeKey.Double
    THEN DoubleOfBitsIs(Find(item.descriptor, key).value, n)
    ELSE n = NumberValue(Find(item.descriptor, key))

\* AFrm of the single item of FSts, and 0 when FSts has not exactly one
\* item or the item has no AFrm
ActiveIndexOfFSts ==
  IF FSts.type # 0 /\ Len(FSts.values) = 1
       /\ FSts.values[1].type = OSTypeKey.Descriptor
    THEN NumberValue(Find(FSts.values[1].descriptor, Key_AFrm))
    ELSE 0

\* C15: for a resource 4003 of valid framing whose descriptor holds a list
\* FrIn, readImageResources delivers onFramesData once, before the
\* onImageResource of the resource, with one frame for each descriptor of
\* FrIn, in list order, that carries FrDl, FrID and FrGA of the item, and
\* with activeIndex AFrm of the single item of FSts, or 0 when FSts has
\* not exactly one item.
C15_FramesDataOfFrIn ==
  [][(readImageResources /\ file \in AnimationFiles
        /\ FileValue(pos + 40, 4) = DescriptorVersion /\ FrIn.type # 0) =>
       /\ Len(NewEventsOf("onFramesData")) = 1
       /\ events'[Len(events) + 1].type = "onFramesData"
       /\ events'[Len(events) + 2].type = "onImageResource"
       /\ events'[Len(events) + 2].resourceID = ResIDAnimationFrames
       /\ events'[Len(events) + 1].activeFrameIndex = ActiveIndexOfFSts
       /\ Len(events'[Len(events) + 1].framesInfo) = Len(FrInDescriptors)
       /\ \A i \in 1..Len(FrInDescriptors) :
            /\ Carries(events'[Len(events) + 1].framesInfo[i].duration,
                       FrInDescriptors[i], Key_FrDl)
            /\ Carries(events'[Len(events) + 1].framesInfo[i].id,
                       FrInDescriptors[i], Key_FrID)
            /\ Carries(events'[Len(events) + 1].framesInfo[i].ga,
                       FrInDescriptors[i], Key_FrGA)]_vars

(***************************************************************************)
(* C16                                                                     *)
(***************************************************************************)
\* C16: the layers of a file whose layer records hold a luni block with the
\* unicode name "B" are delivered in onLayersAndMask under the name "B", not
\* under the Pascal name of the record.
C16_UnicodeNameDelivered ==
  (file \in LuniFiles /\ pc = "readImageData") =>
    /\ Indices("onLayersAndMask") # {}
    /\ \A i \in Indices("onLayersAndMask") :
         /\ events[i].layers.layers # <<>>
         /\ \A k \in DOMAIN events[i].layers.layers :
              events[i].layers.layers[k].name = <<66>>

(***************************************************************************)
(* C17                                                                     *)
(***************************************************************************)
\* the smallest multiple of alignment that is >= n
SmallestMultiple(alignment, n) ==
  CHOOSE m \in n..(n + alignment) :
    m % alignment = 0 /\ \A k \in n..(m - 1) : k % alignment # 0

\* C17: wherever in a file a Pascal string is read whose length byte,
\* characters and pad the file holds, readPascalString(2) and
\* readPascalString(4) return the `length` bytes that follow the length
\* byte and leave the position the smallest multiple of the alignment that
\* is >= 1 + length further.
C17_PascalStringAligned ==
  pc = "readFileHeader" =>
    \A p \in 0..(Len(file) - 1), alignment \in {2, 4} :
      (p + SmallestMultiple(alignment, 1 + file[p + 1]) <= Len(file)) =>
        /\ ReadPascalString(Seek(Ctx, p), alignment).v
             = SubSeq(file, p + 2, p + 1 + file[p + 1])
        /\ ReadPascalString(Seek(Ctx, p), alignment).pos
             = p + SmallestMultiple(alignment, 1 + file[p + 1])
        /\ ReadPascalString(Seek(Ctx, p), alignment).ok

\* decode has read a layer name of two characters, and the pad byte after
\* it, with readPascalString(4)
C17_Witness ==
  \E i \in Indices("onLayersAndMask") :
    /\ events[i].layers.layers # <<>>
    /\ events[i].layers.layers[1].name = <<76, 49>>

(***************************************************************************)
(* C18                                                                     *)
(***************************************************************************)
\* the n bytes from offset p on are in the file and their big-endian value
\* is below 2^31
ValueAt(p, n) ==
  /\ p + n <= Len(file)
  /\ \A k \in 1..(n - 4) : file[p + k] = 0
  /\ n >= 4 => file[p + n - 3] < 128

\* the header's version makes the lengths wide
Wide == m_header.version = VersionPsb

\* C18: while no read has failed, at every offset of the file at which the
\* bytes are there, read16, read32 and read64 return the big-endian value of
\* the next 2, 4 and 8 bytes and advance the position by 2, 4 and 8;
\* read32or64Length consumes 8 bytes when the header's version is PSB and 4
\* when it is not, read16or32Length 4 bytes and 2 bytes.
C18_BigEndianReaders ==
  (pc = "readColorModeData" /\ m_ok) =>
    \A p \in 0..Len(file) :
      /\ ValueAt(p, 2) =>
           /\ Read16(Seek(Ctx, p)).v = FileValue(p, 2)
           /\ Read16(Seek(Ctx, p)).pos = p + 2
      /\ ValueAt(p, 4) =>
           /\ Read32(Seek(Ctx, p)).v = FileValue(p, 4)
           /\ Read32(Seek(Ctx, p)).pos = p + 4
      /\ ValueAt(p, 8) =>
           /\ Read64(Seek(Ctx, p)).v = FileValue(p, 8)
           /\ Read64(Seek(Ctx, p)).pos = p + 8
      /\ ValueAt(p, IF Wide THEN 8 ELSE 4) =>
           /\ Read32or64Length(Seek(Ctx, p)).v
                = FileValue(p, IF Wide THEN 8 ELSE 4)
           /\ Read32or64Length(Seek(Ctx, p)).pos = p + (IF Wide THEN 8 ELSE 4)
      /\ ValueAt(p, IF Wide THEN 4 ELSE 2) =>
           /\ Read16or32Length(Seek(Ctx, p)).v
                = FileValue(p, IF Wide THEN 4 ELSE 2)
           /\ Read16or32Length(Seek(Ctx, p)).pos = p + (IF Wide THEN 4 ELSE 2)

\* decode has read the 8-byte lengths and the layers of a PSB file, and the
\* 4-byte byte count of an RLE row, without a failed read
C18_Witness ==
  /\ Wide
  /\ m_ok
  /\ pc = "readImageData"
  /\ \E i \in Indices("onLayersAndMask") : events[i].layers.layers # <<>>
  /\ \E i \in Indices("onBeginImage") : events[i].img.compressionMethod = RLE

(***************************************************************************)
(* C19                                                                     *)
(***************************************************************************)
\* the context after read8 was called at the end of the file
AfterRead8AtEnd == Read8(Seek(Ctx, Len(file)))

\* the context after read(buf, 8) was called p bytes into the file
AfterRead(p) == FileRead(Seek(Ctx, p), 8)

\* read16, read32 and read64 return 0 at offset q in the context c
ReadersReturnZero(c, q) ==
  /\ Read16(Seek(c, q)).v = 0
  /\ Read32(Seek(c, q)).v = 0
  /\ Read64(Seek(c, q)).v = 0

\* C19: after a read8 at the end of the file, and after a read(buf, 8) that
\* gets fewer than 8 bytes, ok() is false, it stays false whatever is read
\* next, and read16, read32 and read64 return 0 wherever they are called.
C19_FailedReadIsSticky ==
  pc = "readColorModeData" =>
    /\ ~AfterRead8AtEnd.ok
    /\ \A q \in 0..Len(file) :
         /\ ~Read32(Seek(AfterRead8AtEnd, q)).ok
         /\ ReadersReturnZero(AfterRead8AtEnd, q)
    /\ \A p \in 0..Len(file) :
         (AfterRead(p).v < 8) =>
           /\ ~AfterRead(p).ok
           /\ \A q \in 0..Len(file) : ReadersReturnZero(AfterRead(p), q)

(***************************************************************************)
(* C20                                                                     *)
(***************************************************************************)
\* the context of the decoder when its memory held `memory` at the start
CtxOn(memory) == [Ctx EXCEPT !.mem = memory]

\* the next section parser starts with no locals and no value
NextSection(c) == [c EXCEPT !.l = <<>>, !.v = 0]

\* decode_psd after readColorModeData: the next parsers run when no
\* exception has ended the run
ThenImageResources(c) ==
  IF Live(c) THEN ParseImageResources(NextSection(c)) ELSE c

ThenLayersAndMask(c) ==
  IF Live(c) THEN ParseLayersAndMask(NextSection(c)) ELSE c

ThenImageData(c) ==
  IF Live(c) THEN ParseImageData(NextSection(c)) ELSE c

\* decode_psd after readFileHeader: the four section parsers in a row
RestOfDecode(c) ==
  ThenImageData(ThenLayersAndMask(ThenImageResources(ParseColorModeData(c))))

\* the events decode delivers from here on when its memory held `memory`
EventsOn(memory) == RestOfDecode(CtxOn(memory)).ev

\* C20: two runs of decode on the same bytes deliver the same events with
\* the same payloads, whatever the decoder's memory held at the start: once
\* the header is read, what the rest of decode delivers is the same for
\* every content of the memory.
C20_SameInputSameEvents ==
  pc = "readColorModeData" =>
    \A memory \in GarbageBuffers : EventsOn(memory) = EventsOn(garbage)

(***************************************************************************)
(* C21                                                                     *)
(***************************************************************************)
\* the file holds the n bytes from offset p on
HasBytes(p, n) == p + n <= Len(file)

\* a resource record whose magic is at q: the bytes its name takes (the
\* length byte and the name, padded to even), where its payload starts and
\* the length it declares
ResourceNameSize(q) == 1 + file[q + 7] + ((1 + file[q + 7]) % 2)

ResourcePayloadStart(q) == q + 6 + ResourceNameSize(q) + 4

ResourceDeclaredLength(q) == FileValue(ResourcePayloadStart(q) - 4, 4)

\* the file holds the magic of a resource record at q, and its id, name and
\* length
HasResourceHead(q) ==
  /\ HasBytes(q, 7)
  /\ FileValue(q, 4) = PSD_IMAGE_BLOCK_MAGIC_NUMBER
  /\ HasBytes(q, 6 + ResourceNameSize(q) + 4)

\* the records of the section by their declared lengths: the record at q
\* and the n - 1 that may follow it before `end`
RECURSIVE ResourceStarts(_, _, _)
ResourceStarts(q, end, n) ==
  IF n = 0 \/ q >= end \/ ~HasResourceHead(q)
    THEN {}
    ELSE {q} \cup ResourceStarts(ResourcePayloadStart(q)
                                   + PaddedLength(ResourceDeclaredLength(q)),
                                 end, n - 1)

\* the records of the section readImageResources is about to read
SectionResourceStarts ==
  IF pc = "readImageResources" /\ HasBytes(pos, 4)
    THEN ResourceStarts(pos + 4, pos + 4 + FileValue(pos, 4), MaxRes + 1)
    ELSE {}

\* the context after the record whose magic is at q was processed
AfterResource(q) == ReadResourceRecord(Seek(Ctx, q + 4))

\* the context after the payload's parser, before the seek and the pad
AfterPayload(q) ==
  LET resID == Let(Read16(Seek(Ctx, q + 4)), "resID")
      name == Let(ReadPascalString(resID, 2), "name")
      resLength == LetTell(Let(Read32(name), "resLength"), "filePos")
  IN ResourcePayload(NewImageResource(resLength))

\* a tagged block whose signature is at q: the width of its length field,
\* where its data start and the length it declares
BlockLengthWidth(q) ==
  IF m_header.version = VersionPsb /\ FileValue(q + 4, 4) \in LongLengthKeys
    THEN 8
    ELSE 4

BlockDataStart(q) == q + 8 + BlockLengthWidth(q)

BlockDeclaredLength(q) == FileValue(q + 8, BlockLengthWidth(q))

\* the big-endian value of the n bytes from offset p on is below 2^31
Below31Bits(p, n) ==
  \A k \in 1..(n - 3) : IF k = n - 3 THEN file[p + k] < 128 ELSE file[p + k] = 0

\* the file holds a tagged block's signature at q, and its key and length
HasBlockHead(q) ==
  /\ HasBytes(q, 8)
  /\ Below31Bits(q, 4)
  /\ FileValue(q, 4) \in {PSD_LAYER_INFO_MAGIC_NUMBER,
                          PSD_LAYER_INFO_MAGIC_NUMBER2}
  /\ Below31Bits(q + 4, 4)
  /\ HasBytes(q, 8 + BlockLengthWidth(q))
  /\ Below31Bits(q + 8, BlockLengthWidth(q))

\* the offsets of the layers-and-mask section at which a tagged block's
\* head is found
SectionBlockStarts ==
  IF pc = "readLayersAndMask"
    THEN {q \in pos..Len(file) : HasBlockHead(q)}
    ELSE {}

\* the context after readAdditionalLayerInfo was called at q
AfterBlock(q) ==
  ReadAdditionalLayerInfo(Set(Seek(Ctx, q), "layerRecord",
                              NewLayerRecord(Ctx)))

\* no fatal error: nothing was thrown, no loop spins and the byte source has
\* not signalled not-ok
NoFatalError(c) == Live(c) /\ c.ok

\* C21: when no fatal error occurs (nothing is thrown and the byte source
\* stays ok), after a resource record with payload start p and declared
\* length L the position is p + L + (L mod 2), and after a tagged block with
\* data start p and declared length L the position is p + L + (L mod 2),
\* whatever the parser of the payload has consumed.
C21_ResumesAtPaddedEnd ==
  /\ \A q \in SectionResourceStarts :
       NoFatalError(AfterResource(q)) =>
         AfterResource(q).pos = ResourcePayloadStart(q)
                                  + PaddedLength(ResourceDeclaredLength(q))
  /\ \A q \in SectionBlockStarts :
       NoFatalError(AfterBlock(q)) =>
         AfterBlock(q).pos = BlockDataStart(q)
                               + PaddedLength(BlockDeclaredLength(q))

\* a record is processed without a fatal error and the parser of its payload
\* has stopped somewhere else than at the end of the declared length
C21_Witness ==
  \E q \in SectionResourceStarts :
    /\ NoFatalError(AfterResource(q))
    /\ AfterPayload(q).pos # ResourcePayloadStart(q) + ResourceDeclaredLength(q)

(***************************************************************************)
(* C22                                                                     *)
(***************************************************************************)
\* the scanline buffer of the composite image
CompositeScanline ==
  [i \in 1..ScanlineSize([width |-> m_header.width,
                          depth |-> m_header.depth]) |-> 0]

\* row k of the composite image decoded from its first opcode
RowDecoded(k) ==
  RleOpcodes(Seek(Ctx, RowStart(k)), RowByteCount(k), CompositeScanline, 0)

\* C22: after a scanline of an RLE composite image is decoded the position
\* of the byte source has advanced by the scanline's byte count from its
\* first opcode, also when the scanline buffer was full before the byte count
\* was used up.
C22_RowAdvancesByByteCount ==
  RleComposite =>
    \A k \in 0..(CompositeRows - 1) :
      RowDecoded(k).c.pos = RowStart(k) + RowByteCount(k)

(***************************************************************************)
(* C23                                                                     *)
(***************************************************************************)
\* the file holds the signature and the key of an mlst item at q; its
\* version is at q + 16 and its descriptor at q + 20
MlstStarts ==
  IF pc = "readLayersAndMask"
    THEN {q \in pos..Len(file) :
            /\ HasBytes(q, 20)
            /\ Below31Bits(q, 4)
            /\ FileValue(q, 4) = PSD_LAYER_INFO_MAGIC_NUMBER
            /\ Below31Bits(q + 4, 4)
            /\ FileValue(q + 4, 4) = Key_mlst}
    ELSE {}

\* the descriptor of the item
MlstParsed(q) == ParseDescriptor(Seek(Ctx, q + 20))

\* it was parsed, and it holds LaID and the list LaSt
HasLayerStates(q) ==
  /\ NoFatalError(MlstParsed(q))
  /\ Key_LaID \in DOMAIN MlstParsed(q).v.descriptor
  /\ Key_LaSt \in DOMAIN MlstParsed(q).v.descriptor
  /\ MlstParsed(q).v.descriptor[Key_LaSt].type = OSTypeKey.List

MlstLayerID(q) == NumberValue(MlstParsed(q).v.descriptor[Key_LaID])

MlstLayerStates(q) == MlstParsed(q).v.descriptor[Key_LaSt].values

\* the item's own enab value, and true when it has no enab key
OwnEnab(layerDesc) ==
  IF Key_enab \in DOMAIN layerDesc
       /\ layerDesc[Key_enab].type = OSTypeKey.Boolean
    THEN layerDesc[Key_enab].value
    ELSE TRUE

\* the frame IDs of the item's FrLs list
OwnFrameIDs(layerDesc) ==
  IF Key_FrLs \in DOMAIN layerDesc /\ layerDesc[Key_FrLs].type = OSTypeKey.List
    THEN layerDesc[Key_FrLs].values
    ELSE <<>>

\* every frame ID of every item in on-disk order, each with the enab value
\* of its own item
RECURSIVE FramesOfItems(_)
FramesOfItems(values) ==
  IF values = <<>> THEN <<>>
  ELSE (IF Head(values).type = OSTypeKey.Descriptor
          THEN [i \in 1..Len(OwnFrameIDs(Head(values).descriptor)) |->
                  [frameID |->
                     NumberValue(OwnFrameIDs(Head(values).descriptor)[i]),
                   isVisibleInFrame |-> OwnEnab(Head(values).descriptor)]]
          ELSE <<>>)
         \o FramesOfItems(Tail(values))

\* the inFrames of a layer of that id after readLayerMLSTSection has read
\* the item
InFramesAfter(q, layerID) ==
  ReadLayerMLSTSection(
    Set(Seek(Ctx, q + 16), "layerRecord",
        [NewLayerRecord(Ctx) EXCEPT !.layerID = layerID])).l.layerRecord.inFrames

\* the ids of the layers that read the item: the id it names and another one
LayerIDs(q) == {MlstLayerID(q), MlstLayerID(q) + 1}

\* C23: an mlst item whose LaID is the id of the layer appends every frame
\* ID of the FrLs list of each LaSt item to the layer's inFrames in on-disk
\* order, visible as the item's own enab value says and visible when the
\* item has no enab key, whatever the enab values of the items before it;
\* an item whose LaID is not the id of the layer appends nothing.
C23_FramesOfOwnItem ==
  \A q \in MlstStarts :
    HasLayerStates(q) =>
      \A layerID \in LayerIDs(q) :
        InFramesAfter(q, layerID) =
          IF layerID = MlstLayerID(q)
            THEN FramesOfItems(MlstLayerStates(q))
            ELSE <<>>

(***************************************************************************)
(* C24                                                                     *)
(***************************************************************************)
LayerEvents == {"onBeginLayer", "onEndLayer"}

ImageEvents == {"onBeginImage", "onEndImage"}

\* the last event of one of these types before event i, and 0 if none
LastBefore(i, types) ==
  LET S == {j \in 1..(i - 1) : events[j].type \in types}
  IN IF S = {} THEN 0 ELSE CHOOSE j \in S : \A k \in S : k <= j

\* the first event of one of these types after event i, and 0 if none
FirstAfter(i, types) ==
  LET S == {j \in (i + 1)..Len(events) : events[j].type \in types}
  IN IF S = {} THEN 0 ELSE CHOOSE j \in S : \A k \in S : j <= k

\* the number of events of that type between events i and j
CountBetween(i, j, type) ==
  Cardinality({k \in (i + 1)..(j - 1) : events[k].type = type})

\* the scanline at i is the first row of the first channel of its image b,
\* or the row after the scanline before it, or the first row of the next
\* channel after the last row of a channel
RowInOrder(i, b) ==
  LET s == LastBefore(i, {"onImageScanline", "onBeginImage"})
      n == CountBetween(b, i, "onImageScanline")
      h == events[b].img.height
  IN /\ events[i].img = events[b].img
     /\ h > 0
     /\ n < h * Len(events[b].img.channels)
     /\ events[i].y = n % h
     /\ events[i].chanID = events[b].img.channels[(n \div h) + 1]
     /\ s # b => events[s].y <= events[i].y \/ events[i].y = 0

\* the events are nested and ordered as far as they were delivered
EventsOrdered ==
  \A i \in DOMAIN events :
    LET l == LastBefore(i, LayerEvents)
        b == LastBefore(i, ImageEvents)
    IN CASE events[i].type = "onBeginLayer" ->
              /\ l # 0 => events[l].type = "onEndLayer"
              /\ b # 0 => events[b].type = "onEndImage"
         [] events[i].type = "onEndLayer" ->
              /\ l # 0
              /\ events[l].type = "onBeginLayer"
              /\ events[l].layer = events[i].layer
              /\ b # 0 => events[b].type = "onEndImage"
         [] events[i].type = "onBeginImage" ->
              /\ b # 0 => events[b].type = "onEndImage"
              /\ (l # 0 /\ events[l].type = "onBeginLayer") =>
                   /\ CountBetween(l, i, "onBeginImage")
                        < Len(events[l].layer.channels)
                   /\ events[i].img.channels =
                        <<events[l].layer.channels[
                            CountBetween(l, i, "onBeginImage") + 1].channelID>>
         [] events[i].type = "onEndImage" ->
              /\ b # 0
              /\ events[b].type = "onBeginImage"
              /\ events[b].img = events[i].img
         [] events[i].type = "onImageScanline" ->
              /\ b # 0
              /\ events[b].type = "onBeginImage"
              /\ RowInOrder(i, b)
         [] OTHER -> TRUE

\* the images whose rows readImage decodes
RowsDecoded(img) ==
  \/ img.compressionMethod = RawImageData
  \/ img.compressionMethod = RLE /\ img.depth = 8

\* every layer and every image that was begun has its end, an ended layer
\* has an image for each of its channels and an ended image whose rows are
\* decoded has all its rows
EventsClosed ==
  \A i \in DOMAIN events :
    CASE events[i].type = "onBeginLayer" ->
           /\ FirstAfter(i, LayerEvents) # 0
           /\ CountBetween(i, FirstAfter(i, LayerEvents), "onBeginImage")
                = Len(events[i].layer.channels)
      [] events[i].type = "onBeginImage" ->
           /\ FirstAfter(i, ImageEvents) # 0
           /\ (RowsDecoded(events[i].img) /\ events[i].img.height > 0) =>
                CountBetween(i, FirstAfter(i, ImageEvents), "onImageScanline")
                  = events[i].img.height * Len(events[i].img.channels)
      [] OTHER -> TRUE

\* C24 as stated: in every run of decode each onBeginLayer(L) is followed by
\* onEndLayer(L) before any other onBeginLayer, each onBeginImage by its
\* onEndImage before any other onBeginImage, every onImageScanline lies
\* between an onBeginImage and its onEndImage, and the images of a layer's
\* channels lie between the layer's begin and end in the order of its
\* channel list with the rows 0..height-1 in increasing order.
C24_EventsNested ==
  /\ EventsOrdered
  /\ pc = "returned" => EventsClosed

\* C24, amended: the events are nested and ordered in every run as far as
\* they were delivered, and every layer and image that was begun is ended
\* with all its images and rows in the runs in which decode returns true.
C24_EventsNestedWhenTrue ==
  /\ EventsOrdered
  /\ result = "true" => EventsClosed

\* decode has returned true for a file with a layer of two channels, whose
\* two images of one row each lie between the layer's begin and end
C24_Witness ==
  /\ result = "true"
  /\ \E i \in DOMAIN events :
       /\ events[i].type = "onEndLayer"
       /\ Len(events[i].layer.channels) = 2
       /\ CountBetween(LastBefore(i, {"onBeginLayer"}), i, "onImageScanline") = 2

(***************************************************************************)
(* C25                                                                     *)
(***************************************************************************)
\* the positions at which a section parser is about to run
Sections ==
  {"readFileHeader", "readColorModeData", "readImageResources",
   "readLayersAndMask", "readImageData"}

\* the section parser that is about to run is left: for the next section,
\* with the result of decode, or for a loop that never ends
SectionLeft ==
  /\ pc \in Sections
  /\ pc' \in (Sections \cup {"returned", "hang", "beyond"}) \ {pc}

\* decode_psd runs on its own thread of control: a section parser that is
\* about to run does run
FairSpec == Spec /\ WF_pc(SectionLeft)

\* C25: decode terminates on every finite input: it returns true or false
\* (or it goes on into the slices readers, which are not followed here), and
\* in particular the tagged-block loop of readLayersAndMask stops once the
\* byte source is not ok or the position has passed the end of the section.
C25_DecodeTerminates == <>(pc \in {"returned", "beyond"})

(***************************************************************************)
(* C26                                                                     *)
(***************************************************************************)
\* the layers-and-mask section at the position of the byte source declares
\* the length 0
EmptyLayersAndMask ==
  /\ pc = "readLayersAndMask"
  /\ HasBytes(pos, LengthWidth)
  /\ FileValue(pos + LengthWidth - 4, 4) = 0

\* the layers the section parser has delivered
LayersDelivered(c) == c.ev[Len(c.ev)].layers.layers

\* C26: when the layers-and-mask section declares the length 0 the parser
\* reports zero layers and reads no byte beyond the length field: whatever
\* the bytes of the image data that follow are, it ends without an error at
\* the end of the length field, with the byte source as it was.
C26_EmptySectionReadsNoMore ==
  EmptyLayersAndMask =>
    /\ NoFatalError(ParseLayersAndMask(Ctx))
    /\ ParseLayersAndMask(Ctx).pos = pos + LengthWidth
    /\ Len(ParseLayersAndMask(Ctx).ev) = Len(events) + 1
    /\ LayersDelivered(ParseLayersAndMask(Ctx)) = <<>>

(***************************************************************************)
(* C27                                                                     *)
(***************************************************************************)
\* where the global mask info begins when the layers info is empty
MaskInfoStart == pos + 2 * LengthWidth

\* the section at the position of the byte source has an empty layers info
\* and a global mask info with a length that is not 0
HasGlobalMaskInfo ==
  /\ pc = "readLayersAndMask"
  /\ HasBytes(pos, 2 * LengthWidth + 4)
  /\ FileValue(pos + LengthWidth, LengthWidth) = 0
  /\ Below31Bits(MaskInfoStart, 4)
  /\ FileValue(MaskInfoStart, 4) # 0

AfterMaskInfo == ReadGlobalMaskInfo(Seek(Ctx, MaskInfoStart))

\* C27: after readGlobalMaskInfo has parsed a block of a declared length L
\* that is not 0 and whose length field ends at q, the position of the byte
\* source is q + L, the byte after the payload.
C27_ResumesAfterMaskPayload ==
  (HasGlobalMaskInfo /\ NoFatalError(AfterMaskInfo)) =>
    AfterMaskInfo.pos = MaskInfoStart + 4 + FileValue(MaskInfoStart, 4)

(***************************************************************************)
(* C28                                                                     *)
(***************************************************************************)
\* the first layer record of the layers info: where its blend mode
\* signature, its Pascal name and its tagged blocks begin, and where its
\* extra data ends
FirstRecordSignature ==
  pos + 2 * LengthWidth + 2 + 18
    + FileValue(pos + 2 * LengthWidth + 2 + 16, 2) * (2 + LengthWidth)

FirstRecordNameStart ==
  FirstRecordSignature + 24 + FileValue(FirstRecordSignature + 16, 4)
    + FileValue(FirstRecordSignature + 20
                  + FileValue(FirstRecordSignature + 16, 4), 4)

FirstRecordBlocksStart ==
  FirstRecordNameStart + 1 + file[FirstRecordNameStart + 1]
    + PascalPad(file[FirstRecordNameStart + 1], 4)

FirstRecordExtraEnd ==
  FirstRecordSignature + 16 + FileValue(FirstRecordSignature + 12, 4)

\* the tagged blocks laid out from offset q on that start before `end`, by
\* their declared lengths: .key, .length and .data (the offset of the data)
RECURSIVE BlocksFrom(_, _)
BlocksFrom(q, end) ==
  IF q >= end \/ ~HasBlockHead(q)
    THEN <<>>
    ELSE <<[key |-> FileValue(q + 4, 4), length |-> BlockDeclaredLength(q),
            data |-> BlockDataStart(q)]>>
           \o BlocksFrom(BlockDataStart(q) + PaddedLength(BlockDeclaredLength(q)),
                         end)

FirstRecordBlocks == BlocksFrom(FirstRecordBlocksStart, FirstRecordExtraEnd)

\* the file holds a layers info whose first layer record is there with all
\* its extra data, and readLayersInfo gets through it
FirstRecordRead ==
  /\ HasLayersInfo
  /\ FileLayerCount # 0
  /\ HasBytes(pos, 2 * LengthWidth + 2 + 18)
  /\ HasBytes(FirstRecordSignature, 24)
  /\ HasBytes(FirstRecordNameStart, 1)
  /\ Len(file) >= FirstRecordExtraEnd
  /\ NoFatalError(ReadLayersInfo(LayersInfoCtx))
  /\ Len(ReadLayersInfo(LayersInfoCtx).v) >= 1

\* C28: every tagged block that starts before the end of the extra data of
\* a layer record is processed, in on-disk order, also after a block whose
\* declared length is 0: the layer has the layerID of the last lyid block
\* of its extra data.
C28_BlockAfterEmptyBlockIsRead ==
  FirstRecordRead =>
    \A i \in DOMAIN FirstRecordBlocks :
      (/\ FirstRecordBlocks[i].key = Key_lyid
       /\ \A j \in (i + 1)..Len(FirstRecordBlocks) :
            FirstRecordBlocks[j].key # Key_lyid) =>
        ReadLayersInfo(LayersInfoCtx).v[1].layerID
          = FileValue(FirstRecordBlocks[i].data, 4)

(***************************************************************************)
(* C29                                                                     *)
(***************************************************************************)
\* the number of resource records that start at q or after it and before
\* `end`, each one beginning where the one before it ends; a record whose
\* head the file does not hold is the last one.  n bounds the walk.
RECURSIVE RecordsInside(_, _, _)
RecordsInside(q, end, n) ==
  IF n = 0 \/ q >= end \/ ~HasBytes(q, 4)
       \/ FileValue(q, 4) # PSD_IMAGE_BLOCK_MAGIC_NUMBER
    THEN 0
  ELSE IF ~HasResourceHead(q)
    THEN 1
  ELSE 1 + RecordsInside(ResourcePayloadStart(q)
                           + PaddedLength(ResourceDeclaredLength(q)),
                         end, n - 1)

\* the image-resources section begins at the position of the byte source
\* with its length
AtImageResources ==
  /\ pc = "readImageResources"
  /\ HasBytes(pos, 4)
  /\ Below31Bits(pos, 4)

\* C29: every resource record that readImageResources parses starts inside
\* [begin, begin + length) of the section: no more records are delivered
\* than start before the end of the section, also when the extent of a
\* record exceeds the bytes that remain of the declared length.
C29_RecordsStartInsideSection ==
  AtImageResources =>
    NewEvents(ParseImageResources(Ctx).ev, Len(events), "onImageResource")
      <= RecordsInside(pos + 4, pos + 4 + FileValue(pos, 4), Len(file))

(***************************************************************************)
(* C30                                                                     *)
(***************************************************************************)
\* the events of the composite image that readImageData delivers in this
\* state: onBeginImage comes first and onImageData last
CompositeEvents ==
  SubSeq(ParseImageData(Ctx).ev, Len(events) + 1, Len(ParseImageData(Ctx).ev))

\* readImageData gets through the composite image
CompositeRead ==
  /\ pc = "readImageData"
  /\ Live(ParseImageData(Ctx))
  /\ Len(CompositeEvents) >= 2
  /\ CompositeEvents[1].type = "onBeginImage"
  /\ CompositeEvents[Len(CompositeEvents)].type = "onImageData"

\* C30: the ImageData of onImageData has the compression method, the width,
\* the height, the depth and the channel list of the ImageData of the
\* composite's onBeginImage, which are those of the header.
C30_ImageDataAsBegun ==
  CompositeRead =>
    CompositeEvents[Len(CompositeEvents)].data = CompositeEvents[1].img

====
